---- MODULE Spec2Model ----
(***************************************************************************)
(* Verification model of py6502emu: the memory bus (DeviceMapper,          *)
(* MemoryController, SystemBus), the InterruptController, the TickEngine   *)
(* with its TickScheduler, and the DeviceScheduler.                        *)
(*                                                                         *)
(* Each subsystem has its own specification over the module's variables;  *)
(* the actions of one subsystem leave the variables of the others          *)
(* unchanged.                                                              *)
(***************************************************************************)
EXTENDS Integers, Sequences, FiniteSets, TLC

(***************************************************************************)
(* Bounds of the model.                                                    *)
(***************************************************************************)
\* highest valid bus address of the scaled-down address space (0xFFFF in the code)
AddrMax == 2
\* cap on the number of master cycles the tick engine advances in one run
MaxCycles == 2
\* cap on the cycle number passed to DeviceScheduler.execute_cycle, and the
\* cycle until which block_device blocks
MaxSchedCycle == 1
\* cap on the number of cycles in which the CPU calls the interrupt check
MaxCheckCycle == 8

(***************************************************************************)
(* State.                                                                  *)
(***************************************************************************)
\* the memory bus: DeviceMapper, MemoryController, SystemBus
VARIABLES
    dm_mappings,        \* DeviceMapper._mappings: sequence of mappings, sorted by start
    dm_name_to_mapping, \* DeviceMapper._name_to_mapping: name -> mapping, NoMapping for an absent key
    mc_last_mapping,    \* MemoryController._last_mapping (None or a mapping)
    mc_last_address_range, \* MemoryController._last_address_range
    mc_routed,          \* last read/write since the last mapping change: [addr, target]
    sb_mappings,        \* SystemBus._mappings
    bus_error           \* exception raised by the last bus operation, or None

busVars == <<dm_mappings, dm_name_to_mapping, mc_last_mapping,
             mc_last_address_range, mc_routed, sb_mappings, bus_error>>

\* the bytes behind the bus
VARIABLES
    as_memory,             \* AddressSpace._memory: address -> byte
    as_read_only_regions,  \* AddressSpace._read_only_regions
    dev_data,              \* the byte the mapped device holds
    bus_access             \* the read or write made last on a bus, with what
                           \* a read returned

dataVars == <<as_memory, as_read_only_regions, dev_data, bus_access>>

\* the InterruptController
VARIABLES
    irq_sources,          \* InterruptController._irq_sources
    nmi_pending,          \* InterruptController._nmi_pending
    reset_pending,        \* InterruptController._reset_pending
    current_state,        \* InterruptController._current_state
    servicing_interrupt,  \* InterruptController._servicing_interrupt
    nmi_previous_state,   \* InterruptController._nmi_previous_state
    ic_call,              \* the call made last: [op, arg], the argument as text
    ic_result             \* what that call returned or raised

icVars == <<irq_sources, nmi_pending, reset_pending, current_state,
            servicing_interrupt, nmi_previous_state, ic_call, ic_result>>

\* the TickEngine with its TickScheduler and CycleCounter
VARIABLES
    te_tickables,        \* TickScheduler._tickables: ids of the registered devices
    te_priority_groups,  \* TickScheduler._priority_groups: priority -> list of ids
    te_execution_order,  \* TickScheduler._execution_order
    te_enabled,          \* what each device's is_tick_enabled() returns
    te_running,          \* TickEngine._running
    te_paused,           \* TickEngine._paused
    te_step_mode,        \* TickEngine._step_mode
    te_step_event,       \* TickEngine._step_event: the flag of the Event
    te_blocked,          \* a tick() call waits on _step_event, holding _engine_lock
    te_current_cycle,    \* CycleCounter._current_cycle
    te_tick_log,         \* the device tick calls of the last executed cycle, in order
    te_call,             \* the engine call made last
    te_result            \* what that call returned or raised

tickVars == <<te_tickables, te_priority_groups, te_execution_order, te_enabled,
              te_running, te_paused, te_step_mode, te_step_event, te_blocked,
              te_current_cycle, te_tick_log, te_call, te_result>>

\* the DeviceScheduler with its ExecutionQueue
VARIABLES
    ds_policy,              \* SchedulingConfig.policy
    ds_registered_devices,  \* DeviceScheduler._registered_devices: the ids
    ds_tasks,               \* ExecutionQueue._tasks: task -> its mutable fields
    ds_ready_queue,         \* ExecutionQueue._ready_queue: the heap list
    ds_blocked_queue,       \* ExecutionQueue._blocked_queue
    ds_completed_queue,     \* ExecutionQueue._completed_queue
    ds_current_task,        \* ExecutionQueue._current_task
    ds_current_cycle,       \* DeviceScheduler._current_cycle
    ds_log,                 \* phases entered and ticks called by the execute_cycle just made
    ds_call                 \* the scheduler call made last

schedVars == <<ds_policy, ds_registered_devices, ds_tasks, ds_ready_queue,
               ds_blocked_queue, ds_completed_queue, ds_current_task,
               ds_current_cycle, ds_log, ds_call>>

\* the CPU registers, the memory behind the CPU and the InterruptHandler
VARIABLES
    cpu_pc,       \* CPURegisters.pc
    cpu_s,        \* CPURegisters.s
    cpu_p,        \* CPURegisters.p
    cpu_mem,      \* the memory behind the handler's memory accessors:
                  \* address -> byte, for the addresses holding a value
    mem_log,      \* the memory accesses of the entry sequence in progress or
                  \* just ended, or of the stack operation just made, in order
    ih_sequence,  \* InterruptHandler._current_sequence
    ih_context,   \* InterruptHandler._current_context
    ih_history,   \* InterruptHandler._interrupt_history
    ih_call,      \* the call made last on the handler or the registers
    cpu_cycle     \* the cycle number the caller passes to the next interrupt check

cpuVars == <<cpu_pc, cpu_s, cpu_p, cpu_mem, mem_log, ih_sequence, ih_context,
             ih_history, ih_call, cpu_cycle>>

VARIABLES
    cpu_x,     \* CPURegisters.x
    cpu_y,     \* CPURegisters.y
    exe_call   \* the call made last on the decoder, the addressing modes or
               \* the flags: [op, operand, result]

exeVars == <<cpu_x, cpu_y, exe_call>>

VARIABLES
    sb_bus_masters,     \* SystemBus._bus_masters
    sb_current_master,  \* SystemBus._current_master
    arb_call            \* the mastership call made last: [op, device, result]

arbVars == <<sb_bus_masters, sb_current_master, arb_call>>

VARIABLES
    orc_status,              \* SystemOrchestrator._status
    loop_running,            \* EmulationLoop._running
    loop_paused,             \* EmulationLoop._paused
    loop_step_mode,          \* EmulationLoop._step_mode
    loop_breakpoints,        \* EmulationLoop._breakpoints
    loop_current_breakpoint, \* EmulationLoop._current_breakpoint
    clk_mode,                \* SystemClock.config.mode, None before the clock is set
    clk_current_cycle,       \* SystemClock._current_cycle
    clk_running,             \* SystemClock._running
    clk_paused,              \* SystemClock._paused
    clk_step_event,          \* SystemClock._step_event is set
    dev_ticks,               \* the cycles the registered device was ticked with
    orc_call                 \* the call made last: [op, result]

orcVars == <<orc_status, loop_running, loop_paused, loop_step_mode, loop_breakpoints,
             loop_current_breakpoint, clk_mode, clk_current_cycle, clk_running,
             clk_paused, clk_step_event, dev_ticks, orc_call>>

VARIABLES
    bm_breakpoints,  \* BreakpointManager._breakpoints: id -> the breakpoint's fields
    bm_address_map,  \* BreakpointManager._address_map: address -> the ids
    bm_next_id,      \* BreakpointManager._next_id
    bm_call          \* the call made last: [op, address, result]

bpVars == <<bm_breakpoints, bm_address_map, bm_next_id, bm_call>>

VARIABLES
    cr_components,            \* ComponentRegistry._components, in insertion order:
                              \* [component_id, component_type, dependencies, dependents]
    cr_type_registry,         \* ComponentRegistry._type_registry: type -> the ids
    cr_dependency_graph,      \* ComponentRegistry._dependency_graph, in insertion
                              \* order: [component_id, dependencies]
    cr_initialization_order,  \* ComponentRegistry._initialization_order
    cr_call                   \* the call made last: [op, component_id, error]

regVars == <<cr_components, cr_type_registry, cr_dependency_graph,
             cr_initialization_order, cr_call>>

VARIABLES
    adr_memory,  \* the memory AddressingModes reads: address -> byte
    adr_reads    \* the addresses the addressing call made last has read

ptrVars == <<adr_memory, adr_reads>>

\* no read or write was made since the last call on the mappings
NoBusAccess ==
    [bus |-> "None", op |-> "None", address |-> -1, value |-> -1, result |-> -1]

\* an operation of one object leaves the other objects alone; a call on the
\* mappings of a bus leaves the bytes behind it alone
busOnly ==
    /\ UNCHANGED <<icVars, tickVars, schedVars, cpuVars, exeVars, arbVars, orcVars, bpVars, regVars, ptrVars>>
    /\ UNCHANGED <<as_memory, as_read_only_regions, dev_data>>
    /\ bus_access' = NoBusAccess
accessOnly == UNCHANGED <<icVars, tickVars, schedVars, cpuVars, exeVars, arbVars, orcVars, bpVars, regVars, ptrVars>>
icOnly == UNCHANGED <<busVars, dataVars, tickVars, schedVars, cpuVars, exeVars, arbVars, orcVars, bpVars, regVars, ptrVars>>
tickOnly == UNCHANGED <<busVars, dataVars, icVars, schedVars, cpuVars, exeVars, arbVars, orcVars, bpVars, regVars, ptrVars>>
schedOnly == UNCHANGED <<busVars, dataVars, icVars, tickVars, cpuVars, exeVars, arbVars, orcVars, bpVars, regVars, ptrVars>>
cpuOnly == UNCHANGED <<busVars, dataVars, icVars, tickVars, schedVars, exeVars, arbVars, orcVars, bpVars, regVars, ptrVars>>

vars == <<busVars, dataVars, icVars, tickVars, schedVars, cpuVars, exeVars, arbVars, orcVars, bpVars, regVars, ptrVars>>

None == "None"
\* the value None where a mapping is expected
NoMapping == [name |-> None]
\* the value None where an address range is expected
NoRange == <<>>
\* no access observed since the last mapping change
NoAccess == [addr |-> -1, target |-> NoMapping]

(***************************************************************************)
(* Bus: DeviceMapper (memory/device_mapper.py), MemoryController           *)
(* (memory/memory_controller.py) and SystemBus (memory/mmu.py).            *)
(***************************************************************************)
\* device objects and mapping names offered to map_device
BusDevices == {"dev"}
MapNames == {"m1", "m2"}
\* the name offered to SystemBus.map_device, which does not look at names
SbMapNames == {"m1"}
\* addresses offered to the operations: the valid ones and one past the end
AddrInputs == 0..(AddrMax + 1)
ValidAddr(a) == 0 <= a /\ a <= AddrMax

\* DeviceMapping dataclass of device_mapper.py
DeviceMapping(device, start, end, name, ro) ==
    [device |-> device, start_address |-> start, end_address |-> end,
     name |-> name, read_only |-> ro]

\* DeviceMapping.__post_init__: the constructor's validation
MappingValid(start, end) ==
    /\ start <= end
    /\ ValidAddr(start)
    /\ ValidAddr(end)

contains_address(m, a) == m.start_address <= a /\ a <= m.end_address

overlaps_with_Mutant(m, start, end) ==
    ~(end < m.start_address \/ start >= m.end_address)

overlaps_with(m, start, end) ==
    ~(end < m.start_address \/ start > m.end_address)

\* DeviceMapper._find_overlapping_mapping: first overlapping mapping, or None
RECURSIVE FindOverlapFrom(_, _, _, _)
FindOverlapFrom(maps, i, start, end) ==
    IF i > Len(maps) THEN NoMapping
    ELSE IF overlaps_with(maps[i], start, end) THEN maps[i]
    ELSE FindOverlapFrom(maps, i + 1, start, end)

_find_overlapping_mapping(maps, start, end) == FindOverlapFrom(maps, 1, start, end)

\* DeviceMapper._find_exact_mapping
RECURSIVE FindExactFrom(_, _, _, _)
FindExactFrom(maps, i, start, end) ==
    IF i > Len(maps) THEN NoMapping
    ELSE IF maps[i].start_address = start /\ maps[i].end_address = end THEN maps[i]
    ELSE FindExactFrom(maps, i + 1, start, end)

_find_exact_mapping(maps, start, end) == FindExactFrom(maps, 1, start, end)

\* list.sort(key=start_address) applied to a sorted list with m appended:
\* the stable sort puts m behind every element whose start is <= m's
SortedInsert_Mutant(maps, m) == Append(maps, m)
RECURSIVE SortedInsert(_, _)
SortedInsert(maps, m) ==
    IF maps = <<>> THEN <<m>>
    ELSE IF Head(maps).start_address <= m.start_address
         THEN <<Head(maps)>> \o SortedInsert(Tail(maps), m)
         ELSE <<m>> \o maps

\* list.remove(x): drops the first element equal to x
RECURSIVE ListRemove(_, _)
ListRemove(s, x) ==
    IF s = <<>> THEN <<>>
    ELSE IF Head(s) = x THEN Tail(s)
    ELSE <<Head(s)>> \o ListRemove(Tail(s), x)

\* DeviceMapper.find_device: binary search over the sorted list (0-based indices)
RECURSIVE BinarySearch(_, _, _, _)
BinarySearch(maps, left, right, a) ==
    IF left > right THEN NoMapping
    ELSE LET mid == (left + right) \div 2
             m == maps[mid + 1]
         IN IF contains_address(m, a) THEN m
            ELSE IF a < m.start_address THEN BinarySearch(maps, left, mid - 1, a)
            ELSE BinarySearch(maps, mid + 1, right, a)

find_device(maps, a) == BinarySearch(maps, 0, Len(maps) - 1, a)

\* the byte the device holds when it is created, and the bytes offered to
\* the write operations: a byte and a value out of range
DeviceByte == 208
ByteInputs == {90, 256}

\* MemoryController._validate_byte_value, SystemBus._validate_value
ValidByte(value) == 0 <= value /\ value <= 255

\* a read or write of a bus
BusAccess(bus, op, address, value, result) ==
    [bus |-> bus, op |-> op, address |-> address, value |-> value, result |-> result]

\* AddressSpace._check_write_permission: the address lies in a read-only region
InReadOnlyRegion(address) ==
    \E r \in as_read_only_regions : r[1] <= address /\ address <= r[2]

\* AddressSpace.write_byte outside the read-only regions: the byte replaces
\* the one stored at the address
write_byte_Mutant(memory, address, value) == memory
write_byte(memory, address, value) == [memory EXCEPT ![address] = value]

InitBus ==
    /\ dm_mappings = <<>>
    /\ dm_name_to_mapping = [n \in MapNames |-> NoMapping]
    /\ mc_last_mapping = NoMapping
    /\ mc_last_address_range = NoRange
    /\ mc_routed = NoAccess
    /\ sb_mappings = <<>>
    /\ bus_error = None
    /\ as_memory = [a \in 0..AddrMax |-> 0]
    /\ as_read_only_regions = {}
    /\ dev_data = DeviceByte
    /\ bus_access = NoBusAccess

\* DeviceMapper.map_device
DmMapDevice(device, start, end, name, ro) ==
    /\ LET existing == _find_overlapping_mapping(dm_mappings, start, end)
           m == DeviceMapping(device, start, end, name, ro)
       IN /\ IF existing # NoMapping
             THEN /\ bus_error' = "AddressOverlapError"
                  /\ UNCHANGED <<dm_mappings, dm_name_to_mapping>>
             ELSE IF dm_name_to_mapping[name] # NoMapping
             THEN /\ bus_error' = "DeviceMappingError"
                  /\ UNCHANGED <<dm_mappings, dm_name_to_mapping>>
             ELSE IF ~MappingValid(start, end)
             THEN /\ bus_error' = "ValueError"
                  /\ UNCHANGED <<dm_mappings, dm_name_to_mapping>>
             ELSE /\ dm_mappings' = SortedInsert(dm_mappings, m)
                  /\ dm_name_to_mapping' = [dm_name_to_mapping EXCEPT ![name] = m]
                  /\ bus_error' = None
          /\ mc_routed' = NoAccess
          /\ UNCHANGED <<mc_last_mapping, mc_last_address_range, sb_mappings>>
    /\ busOnly

\* DeviceMapper._remove_mapping
RemoveMapping(m) ==
    /\ dm_mappings' = ListRemove(dm_mappings, m)
    /\ dm_name_to_mapping' = [dm_name_to_mapping EXCEPT ![m.name] = NoMapping]

\* DeviceMapper.unmap_device
DmUnmapDevice(start, end) ==
    /\ LET m == _find_exact_mapping(dm_mappings, start, end)
       IN /\ IF m = NoMapping
             THEN /\ bus_error' = "DeviceMappingError"
                  /\ UNCHANGED <<dm_mappings, dm_name_to_mapping>>
             ELSE /\ RemoveMapping(m)
                  /\ bus_error' = None
          /\ mc_routed' = NoAccess
          /\ UNCHANGED <<mc_last_mapping, mc_last_address_range, sb_mappings>>
    /\ busOnly

\* DeviceMapper.unmap_device_by_name
DmUnmapDeviceByName(name) ==
    /\ IF dm_name_to_mapping[name] = NoMapping
       THEN /\ bus_error' = "DeviceMappingError"
            /\ UNCHANGED <<dm_mappings, dm_name_to_mapping>>
       ELSE /\ RemoveMapping(dm_name_to_mapping[name])
            /\ bus_error' = None
    /\ mc_routed' = NoAccess
    /\ UNCHANGED <<mc_last_mapping, mc_last_address_range, sb_mappings>>
    /\ busOnly

\* MemoryController._find_device_mapping: the cached lookup with the cache
\* contents (last, range); yields the mapping found and the new cache contents
FindDeviceMappingWith(last, range, a) ==
    IF /\ last # NoMapping
       /\ range # NoRange
       /\ range[1] <= a
       /\ a <= range[2]
    THEN [mapping |-> last, last |-> last, range |-> range]
    ELSE LET m == find_device(dm_mappings, a)
         IN IF m # NoMapping
            THEN [mapping |-> m, last |-> m,
                  range |-> <<m.start_address, m.end_address>>]
            ELSE [mapping |-> NoMapping, last |-> NoMapping, range |-> NoRange]

_find_device_mapping(a) ==
    FindDeviceMappingWith(mc_last_mapping, mc_last_address_range, a)

\* MemoryController.read
McRead(a) ==
    /\ IF ~ValidAddr(a)
       THEN /\ bus_error' = "InvalidAddressError"
            /\ bus_access' = BusAccess("MemoryController", "read", a, -1, -1)
            /\ UNCHANGED <<dm_mappings, dm_name_to_mapping, mc_last_mapping,
                           mc_last_address_range, mc_routed, sb_mappings>>
       ELSE LET r == _find_device_mapping(a)
            IN /\ mc_last_mapping' = r.last
               /\ mc_last_address_range' = r.range
               /\ mc_routed' = [addr |-> a, target |-> r.mapping]
               /\ bus_error' = None
               /\ bus_access' = BusAccess("MemoryController", "read", a, -1,
                                          IF r.mapping # NoMapping THEN dev_data
                                          ELSE as_memory[a])
               /\ UNCHANGED <<dm_mappings, dm_name_to_mapping, sb_mappings>>
    /\ UNCHANGED <<as_memory, as_read_only_regions, dev_data>>
    /\ accessOnly

\* MemoryController.write
McWrite(a, value) ==
    /\ bus_access' = BusAccess("MemoryController", "write", a, value, -1)
    /\ IF ~ValidAddr(a)
       THEN /\ bus_error' = "InvalidAddressError"
            /\ UNCHANGED <<dm_mappings, dm_name_to_mapping, mc_last_mapping,
                           mc_last_address_range, mc_routed, sb_mappings,
                           as_memory, dev_data>>
       ELSE IF ~ValidByte(value)
       THEN /\ bus_error' = "InvalidValueError"
            /\ UNCHANGED <<dm_mappings, dm_name_to_mapping, mc_last_mapping,
                           mc_last_address_range, mc_routed, sb_mappings,
                           as_memory, dev_data>>
       ELSE LET r == _find_device_mapping(a)
            IN /\ mc_last_mapping' = r.last
               /\ mc_last_address_range' = r.range
               /\ mc_routed' = [addr |-> a, target |-> r.mapping]
               /\ IF r.mapping # NoMapping
                  THEN /\ bus_error' = IF r.mapping.read_only
                                       THEN "MemoryAccessError" ELSE None
                       /\ dev_data' = IF r.mapping.read_only THEN dev_data ELSE value
                       /\ UNCHANGED as_memory
                  ELSE /\ bus_error' = IF InReadOnlyRegion(a)
                                       THEN "MemoryAccessError" ELSE None
                       /\ as_memory' = IF InReadOnlyRegion(a) THEN as_memory
                                       ELSE write_byte(as_memory, a, value)
                       /\ UNCHANGED dev_data
               /\ UNCHANGED <<dm_mappings, dm_name_to_mapping, sb_mappings>>
    /\ UNCHANGED as_read_only_regions
    /\ accessOnly

\* AddressSpace.set_read_only_region
AsSetReadOnlyRegion(start, end) ==
    /\ IF ValidAddr(start) /\ ValidAddr(end) /\ start <= end
       THEN /\ as_read_only_regions' = as_read_only_regions \cup {<<start, end>>}
            /\ bus_error' = None
       ELSE /\ bus_error' = "ValueError"
            /\ UNCHANGED as_read_only_regions
    /\ bus_access' = NoBusAccess
    /\ UNCHANGED <<dm_mappings, dm_name_to_mapping, mc_last_mapping,
                   mc_last_address_range, mc_routed, sb_mappings,
                   as_memory, dev_data>>
    /\ accessOnly

\* the state one byte access of the controller reads and changes, with the
\* byte a read returned and the error raised
ControllerState ==
    [last |-> mc_last_mapping, range |-> mc_last_address_range, routed |-> mc_routed,
     memory |-> as_memory, device |-> dev_data, value |-> -1, error |-> None]

\* MemoryController.read on a state st
ControllerRead(st, a) ==
    IF ~ValidAddr(a) THEN [st EXCEPT !.error = "InvalidAddressError"]
    ELSE LET r == FindDeviceMappingWith(st.last, st.range, a)
         IN [st EXCEPT !.last = r.last, !.range = r.range,
                       !.routed = [addr |-> a, target |-> r.mapping],
                       !.value = IF r.mapping # NoMapping THEN st.device
                                 ELSE st.memory[a]]

\* MemoryController.write on a state st
ControllerWrite(st, a, value) ==
    IF ~ValidAddr(a) THEN [st EXCEPT !.error = "InvalidAddressError"]
    ELSE IF ~ValidByte(value) THEN [st EXCEPT !.error = "InvalidValueError"]
    ELSE LET r == FindDeviceMappingWith(st.last, st.range, a)
             found == [st EXCEPT !.last = r.last, !.range = r.range,
                                 !.routed = [addr |-> a, target |-> r.mapping]]
         IN IF r.mapping # NoMapping
            THEN IF r.mapping.read_only
                 THEN [found EXCEPT !.error = "MemoryAccessError"]
                 ELSE [found EXCEPT !.device = value]
            ELSE IF InReadOnlyRegion(a)
                 THEN [found EXCEPT !.error = "MemoryAccessError"]
                 ELSE [found EXCEPT !.memory = write_byte(st.memory, a, value)]

\* the addresses read_word and write_word accept: 0x0000-0xFFFE
ValidWordAddr_Mutant(a) == ValidAddr(a)
ValidWordAddr(a) == 0 <= a /\ a <= AddrMax - 1

\* the words offered to write_word: 0x1234 and a value out of range
WordInputs == {4660, 65536}

\* a word access of the controller: the addresses of the byte accesses made
\* (-1: not made) and the bytes read or written
WordAccess(op, address, value, result, low_at, low, high_at, high) ==
    [bus |-> "MemoryController", op |-> op, address |-> address, value |-> value,
     result |-> result, low_at |-> low_at, low |-> low, high_at |-> high_at,
     high |-> high]

\* the controller's state after a word access that ended in state st
WordAccessDone(st) ==
    /\ mc_last_mapping' = st.last
    /\ mc_last_address_range' = st.range
    /\ mc_routed' = st.routed
    /\ as_memory' = st.memory
    /\ dev_data' = st.device
    /\ bus_error' = st.error
    /\ UNCHANGED <<dm_mappings, dm_name_to_mapping, sb_mappings, as_read_only_regions>>
    /\ accessOnly

\* MemoryController.read_word
McReadWord(a) ==
    IF ~ValidWordAddr(a)
    THEN /\ bus_access' = WordAccess("read_word", a, -1, -1, -1, -1, -1, -1)
         /\ WordAccessDone([ControllerState EXCEPT !.error = "InvalidAddressError"])
    ELSE LET first == ControllerRead(ControllerState, a)
             second == ControllerRead(first, a + 1)
         IN IF first.error # None
            THEN /\ bus_access' = WordAccess("read_word", a, -1, -1, a, -1, -1, -1)
                 /\ WordAccessDone(first)
            ELSE IF second.error # None
            THEN /\ bus_access' = WordAccess("read_word", a, -1, -1, a, first.value,
                                             a + 1, -1)
                 /\ WordAccessDone(second)
            ELSE /\ bus_access' = WordAccess("read_word", a, -1,
                                             first.value + 256 * second.value,
                                             a, first.value, a + 1, second.value)
                 /\ WordAccessDone(second)

\* MemoryController.write_word
McWriteWord(a, value) ==
    IF ~ValidWordAddr(a)
    THEN /\ bus_access' = WordAccess("write_word", a, value, -1, -1, -1, -1, -1)
         /\ WordAccessDone([ControllerState EXCEPT !.error = "InvalidAddressError"])
    ELSE IF ~(0 <= value /\ value <= 65535)
    THEN /\ bus_access' = WordAccess("write_word", a, value, -1, -1, -1, -1, -1)
         /\ WordAccessDone([ControllerState EXCEPT !.error = "InvalidValueError"])
    ELSE LET low_byte == value % 256
             high_byte == (value \div 256) % 256
             first == ControllerWrite(ControllerState, a, low_byte)
             second == ControllerWrite(first, a + 1, high_byte)
         IN IF first.error # None
            THEN /\ bus_access' = WordAccess("write_word", a, value, -1, a, low_byte,
                                             -1, -1)
                 /\ WordAccessDone(first)
            ELSE /\ bus_access' = WordAccess("write_word", a, value, -1, a, low_byte,
                                             a + 1, high_byte)
                 /\ WordAccessDone(second)

\* DeviceMapping dataclass of mmu.py
SbMapping(device, start, end, name) ==
    [device |-> device, start_address |-> start, end_address |-> end, name |-> name]

\* the overlap test of SystemBus.map_device
SbOverlaps(maps, start, end) ==
    \E i \in 1..Len(maps) :
        ~(end < maps[i].start_address \/ start > maps[i].end_address)

\* SystemBus.map_device
SbMapDevice(device, start, end, name) ==
    /\ IF ~(0 <= start /\ start <= end /\ end <= AddrMax)
       THEN /\ bus_error' = "ValueError"
            /\ UNCHANGED sb_mappings
       ELSE IF SbOverlaps(sb_mappings, start, end)
       THEN /\ bus_error' = "ValueError"
            /\ UNCHANGED sb_mappings
       ELSE /\ sb_mappings' = SortedInsert(sb_mappings, SbMapping(device, start, end, name))
            /\ bus_error' = None
    /\ UNCHANGED <<dm_mappings, dm_name_to_mapping, mc_last_mapping,
                   mc_last_address_range, mc_routed>>
    /\ busOnly

\* SystemBus.unmap_device
SbUnmapDevice(start, end) ==
    /\ sb_mappings' = SelectSeq(sb_mappings,
           LAMBDA m : ~(m.start_address = start /\ m.end_address = end))
    /\ bus_error' = None
    /\ UNCHANGED <<dm_mappings, dm_name_to_mapping, mc_last_mapping,
                   mc_last_address_range, mc_routed>>
    /\ busOnly

\* SystemBus._find_device_mapping: some mapping of the bus contains the address
SbFindsMapping(a) == \E i \in 1..Len(sb_mappings) : contains_address(sb_mappings[i], a)

\* the value SystemBus.read returns for an address no mapping covers
OpenBusValue_Mutant(address) == as_memory[address]
OpenBusValue(address) == 255

\* SystemBus.read
SbRead(a) ==
    /\ IF ~ValidAddr(a)
       THEN /\ bus_error' = "InvalidAddressError"
            /\ bus_access' = BusAccess("SystemBus", "read", a, -1, -1)
       ELSE /\ bus_error' = None
            /\ bus_access' = BusAccess("SystemBus", "read", a, -1,
                                       IF SbFindsMapping(a) THEN dev_data
                                       ELSE OpenBusValue(a))
    /\ UNCHANGED <<dm_mappings, dm_name_to_mapping, mc_last_mapping,
                   mc_last_address_range, mc_routed, sb_mappings>>
    /\ UNCHANGED <<as_memory, as_read_only_regions, dev_data>>
    /\ accessOnly

\* SystemBus.write
SbWrite(a, value) ==
    /\ bus_access' = BusAccess("SystemBus", "write", a, value, -1)
    /\ IF ~ValidAddr(a)
       THEN /\ bus_error' = "InvalidAddressError"
            /\ UNCHANGED dev_data
       ELSE IF ~ValidByte(value)
       THEN /\ bus_error' = "InvalidValueError"
            /\ UNCHANGED dev_data
       ELSE /\ bus_error' = None
            /\ dev_data' = IF SbFindsMapping(a) THEN value ELSE dev_data
    /\ UNCHANGED <<dm_mappings, dm_name_to_mapping, mc_last_mapping,
                   mc_last_address_range, mc_routed, sb_mappings>>
    /\ UNCHANGED <<as_memory, as_read_only_regions>>
    /\ accessOnly

(***************************************************************************)
(* InterruptController (core/interrupt_controller.py).  The statistics,    *)
(* the history list and the hooks hold no state the operations read and    *)
(* are left out.                                                           *)
(***************************************************************************)
\* source ids offered to assert_irq/deassert_irq; the empty id is rejected
IrqSources == {"timer", "uart", "disk"}
IrqSourceInputs == IrqSources \cup {""}

\* INTERRUPT_VECTORS, INTERRUPT_CYCLES and INTERRUPT_PRIORITY
INTERRUPT_VECTORS == [RESET |-> 65532, NMI |-> 65530, IRQ |-> 65534]
INTERRUPT_CYCLES == [RESET |-> 7, NMI |-> 7, IRQ |-> 7]
INTERRUPT_PRIORITY == [RESET |-> 1, NMI |-> 2, IRQ |-> 3]
InterruptType == {"RESET", "NMI", "IRQ"}

\* the result of a call that returns None
NoVector == [interrupt_type |-> None]
\* the result of a call that raises ValueError
RaisedValueError == [interrupt_type |-> None, raised |-> "ValueError"]

InitIC ==
    /\ irq_sources = {}
    /\ nmi_pending = FALSE
    /\ reset_pending = FALSE
    /\ current_state = "IDLE"
    /\ servicing_interrupt = None
    /\ nmi_previous_state = FALSE
    /\ ic_call = [op |-> "init", arg |-> None]
    /\ ic_result = NoVector

\* InterruptController._handle_interrupt_request: the state update
_handle_interrupt_request(state) == IF state = "IDLE" THEN "PENDING" ELSE state

\* InterruptController.assert_irq
assert_irq(source_id) ==
    /\ ic_call' = [op |-> "assert_irq", arg |-> source_id]
    /\ IF source_id = ""
       THEN /\ ic_result' = RaisedValueError
            /\ UNCHANGED <<irq_sources, current_state>>
       ELSE LET was_pending == irq_sources # {}
            IN /\ irq_sources' = irq_sources \cup {source_id}
               /\ current_state' = IF ~was_pending
                                   THEN _handle_interrupt_request(current_state)
                                   ELSE current_state
               /\ ic_result' = NoVector
    /\ UNCHANGED <<nmi_pending, reset_pending, servicing_interrupt, nmi_previous_state>>

AssertIrq(source_id) == assert_irq(source_id) /\ icOnly

\* InterruptController.deassert_irq
DeassertIrq(source_id) ==
    /\ ic_call' = [op |-> "deassert_irq", arg |-> source_id]
    /\ irq_sources' = irq_sources \ {source_id}
    /\ ic_result' = NoVector
    /\ UNCHANGED <<nmi_pending, reset_pending, current_state, servicing_interrupt,
                   nmi_previous_state>>
    /\ icOnly

\* the edge test of InterruptController.assert_nmi
NmiEdge_Mutant(previous, pending) == ~pending

NmiEdge(previous, pending) == ~previous /\ ~pending

\* InterruptController.assert_nmi
AssertNmi ==
    /\ ic_call' = [op |-> "assert_nmi", arg |-> None]
    /\ IF NmiEdge(nmi_previous_state, nmi_pending)
       THEN /\ nmi_pending' = TRUE
            /\ current_state' = _handle_interrupt_request(current_state)
       ELSE UNCHANGED <<nmi_pending, current_state>>
    /\ nmi_previous_state' = TRUE
    /\ ic_result' = NoVector
    /\ UNCHANGED <<irq_sources, reset_pending, servicing_interrupt>>
    /\ icOnly

\* InterruptController.deassert_nmi
DeassertNmi ==
    /\ ic_call' = [op |-> "deassert_nmi", arg |-> None]
    /\ nmi_previous_state' = FALSE
    /\ ic_result' = NoVector
    /\ UNCHANGED <<irq_sources, nmi_pending, reset_pending, current_state,
                   servicing_interrupt>>
    /\ icOnly

\* InterruptController.assert_reset
AssertReset ==
    /\ ic_call' = [op |-> "assert_reset", arg |-> None]
    /\ reset_pending' = TRUE
    /\ current_state' = _handle_interrupt_request(current_state)
    /\ ic_result' = NoVector
    /\ UNCHANGED <<irq_sources, nmi_pending, servicing_interrupt, nmi_previous_state>>
    /\ icOnly

\* InterruptController.deassert_reset
DeassertReset ==
    /\ ic_call' = [op |-> "deassert_reset", arg |-> None]
    /\ reset_pending' = FALSE
    /\ ic_result' = NoVector
    /\ UNCHANGED <<irq_sources, nmi_pending, current_state, servicing_interrupt,
                   nmi_previous_state>>
    /\ icOnly

\* InterruptController._get_all_pending_interrupts
_get_all_pending_interrupts ==
    (IF reset_pending THEN {"RESET"} ELSE {})
    \cup (IF nmi_pending THEN {"NMI"} ELSE {})
    \cup (IF irq_sources # {} THEN {"IRQ"} ELSE {})

is_pending_Mutant == reset_pending \/ nmi_pending

\* InterruptController.is_pending
is_pending == reset_pending \/ nmi_pending \/ irq_sources # {}

\* the sort key of get_highest_priority_interrupt
PriorityKey_Mutant(t) == 4 - INTERRUPT_PRIORITY[t]

PriorityKey(t) == INTERRUPT_PRIORITY[t]

\* InterruptController.get_highest_priority_interrupt: the pending type with
\* the smallest priority number, or None
get_highest_priority_interrupt ==
    LET pending == _get_all_pending_interrupts
    IN IF pending = {} THEN None
       ELSE CHOOSE t \in pending : \A u \in pending : PriorityKey(t) <= PriorityKey(u)

\* InterruptController.get_interrupt_vector
get_interrupt_vector(t) ==
    [vector_address |-> INTERRUPT_VECTORS[t], interrupt_type |-> t,
     cycles |-> INTERRUPT_CYCLES[t]]

\* the request cleared by _acknowledge_interrupt for an IRQ
ClearIrqSources_Mutant(sources) == sources

ClearIrqSources(sources) == {}

\* InterruptController._acknowledge_interrupt
_acknowledge_interrupt(t) ==
    /\ reset_pending' = IF t = "RESET" THEN FALSE ELSE reset_pending
    /\ nmi_pending' = IF t = "NMI" THEN FALSE ELSE nmi_pending
    /\ irq_sources' = IF t = "IRQ" THEN ClearIrqSources(irq_sources) ELSE irq_sources
    /\ current_state' = "SERVICING"
    /\ servicing_interrupt' = t
    /\ ic_result' = get_interrupt_vector(t)

\* the mask test of acknowledge
IrqMasked_Mutant(t, interrupt_enabled) == FALSE

IrqMasked(t, interrupt_enabled) == t = "IRQ" /\ ~interrupt_enabled

\* InterruptController.acknowledge
acknowledge(interrupt_enabled) ==
    /\ LET highest_priority == get_highest_priority_interrupt
       IN /\ ic_call' = [op |-> "acknowledge",
                         arg |-> IF interrupt_enabled THEN "True" ELSE "False"]
          /\ IF highest_priority = None \/ IrqMasked(highest_priority, interrupt_enabled)
             THEN /\ ic_result' = NoVector
                  /\ UNCHANGED <<irq_sources, nmi_pending, reset_pending, current_state,
                                 servicing_interrupt>>
             ELSE _acknowledge_interrupt(highest_priority)
          /\ UNCHANGED nmi_previous_state

\* a call of InterruptController.acknowledge from outside the handler
Acknowledge(interrupt_enabled) == acknowledge(interrupt_enabled) /\ icOnly

\* InterruptController.complete_interrupt_service
complete_interrupt_service ==
    /\ ic_call' = [op |-> "complete_interrupt_service", arg |-> None]
    /\ current_state' = "IDLE"
    /\ servicing_interrupt' = None
    /\ ic_result' = NoVector
    /\ UNCHANGED <<irq_sources, nmi_pending, reset_pending, nmi_previous_state>>

\* a call of InterruptController.complete_interrupt_service from outside
\* the handler
CompleteInterruptService == complete_interrupt_service /\ icOnly

\* InterruptController.force_clear_all_interrupts
ForceClearAllInterrupts ==
    /\ ic_call' = [op |-> "force_clear_all_interrupts", arg |-> None]
    /\ irq_sources' = {}
    /\ nmi_pending' = FALSE
    /\ reset_pending' = FALSE
    /\ current_state' = "IDLE"
    /\ servicing_interrupt' = None
    /\ nmi_previous_state' = FALSE
    /\ ic_result' = NoVector
    /\ icOnly

(***************************************************************************)
(* TickEngine, TickScheduler and CycleCounter (core/tick_engine.py).       *)
(* Timing statistics and hooks are left out.                               *)
(***************************************************************************)
\* TickPriority
TickPriority == [CRITICAL |-> 1, HIGH |-> 2, NORMAL |-> 3, LOW |-> 4]
TickPriorityValues == 1..4

\* TickEngine._sync_interval
SyncInterval == 1000

\* the devices offered to register_tickable, with the TickableConfig each returns
TickDevices == {"cpu", "timer", "uart"}
TickableConfig ==
    [cpu   |-> [priority |-> TickPriority.CRITICAL, cycle_interval |-> 1, phase_offset |-> 0],
     timer |-> [priority |-> TickPriority.NORMAL, cycle_interval |-> 2, phase_offset |-> 0],
     uart  |-> [priority |-> TickPriority.HIGH, cycle_interval |-> 1, phase_offset |-> 0]]

\* the phases _execute_tick runs in every cycle
TickPhases_Mutant == <<"PRE_EXECUTE", "EXECUTE">>

TickPhases == <<"PRE_EXECUTE", "EXECUTE", "POST_EXECUTE">>

\* an engine after construction (warm = FALSE), or a started engine without
\* devices that has advanced to two cycles before the first sync point
InitTickAt(warm) ==
    /\ te_tickables = {}
    /\ te_priority_groups = [p \in TickPriorityValues |-> <<>>]
    /\ te_execution_order = <<>>
    /\ te_enabled = [d \in TickDevices |-> TRUE]
    /\ te_running = warm
    /\ te_current_cycle = IF warm THEN SyncInterval - 2 ELSE 0
    /\ te_paused = FALSE
    /\ te_step_mode = FALSE
    /\ te_step_event = FALSE
    /\ te_blocked = FALSE
    /\ te_tick_log = <<>>
    /\ te_call = "init"
    /\ te_result = None

\* the order in which _update_execution_order visits the priority groups
PriorityVisitOrder_Mutant == <<4, 3, 2, 1>>

PriorityVisitOrder == <<1, 2, 3, 4>>

\* TickScheduler._update_execution_order
RECURSIVE ConcatGroups(_, _)
ConcatGroups(groups, prios) ==
    IF prios = <<>> THEN <<>>
    ELSE groups[Head(prios)] \o ConcatGroups(groups, Tail(prios))

_update_execution_order(groups) == ConcatGroups(groups, PriorityVisitOrder)

\* te_tick_log holds the calls of the cycle a tick() or step() has just
\* executed; every other call empties it
engineUnchanged ==
    /\ te_tick_log' = <<>>
    /\ UNCHANGED <<te_running, te_paused, te_step_mode, te_step_event,
                   te_blocked, te_current_cycle>>

\* TickEngine.register_tickable / TickScheduler.register_tickable
TeRegisterTickable(d) ==
    /\ te_call' = "register_tickable"
    /\ IF d \in te_tickables
       THEN /\ te_result' = "ValueError"
            /\ UNCHANGED <<te_tickables, te_priority_groups, te_execution_order>>
       ELSE LET p == TickableConfig[d].priority
                groups == [te_priority_groups EXCEPT ![p] = Append(@, d)]
            IN /\ te_tickables' = te_tickables \cup {d}
               /\ te_priority_groups' = groups
               /\ te_execution_order' = _update_execution_order(groups)
               /\ te_result' = None
    /\ UNCHANGED te_enabled
    /\ engineUnchanged
    /\ tickOnly

\* TickEngine.unregister_tickable / TickScheduler.unregister_tickable
TeUnregisterTickable(d) ==
    /\ te_call' = "unregister_tickable"
    /\ IF d \notin te_tickables
       THEN UNCHANGED <<te_tickables, te_priority_groups, te_execution_order>>
       ELSE LET p == TickableConfig[d].priority
                groups == [te_priority_groups EXCEPT ![p] = ListRemove(@, d)]
            IN /\ te_tickables' = te_tickables \ {d}
               /\ te_priority_groups' = groups
               /\ te_execution_order' = _update_execution_order(groups)
    /\ te_result' = None
    /\ UNCHANGED te_enabled
    /\ engineUnchanged
    /\ tickOnly

\* a device switches what its is_tick_enabled() returns
TeSetEnabled(d, b) ==
    /\ te_enabled[d] # b
    /\ te_enabled' = [te_enabled EXCEPT ![d] = b]
    /\ te_call' = "set_enabled"
    /\ te_result' = None
    /\ UNCHANGED <<te_tickables, te_priority_groups, te_execution_order>>
    /\ engineUnchanged
    /\ tickOnly

\* TickScheduler._should_execute
_should_execute(d, cycle) ==
    /\ te_enabled[d]
    /\ LET config == TickableConfig[d]
       IN config.cycle_interval > 1 =>
              (cycle + config.phase_offset) % config.cycle_interval = 0

\* TickScheduler.execute_tick: the tick calls of one phase, in order
RECURSIVE PhaseCallsFrom(_, _, _)
PhaseCallsFrom(order, cycle, phase) ==
    IF order = <<>> THEN <<>>
    ELSE LET d == Head(order)
             rest == PhaseCallsFrom(Tail(order), cycle, phase)
         IN IF d \in te_tickables /\ _should_execute(d, cycle)
            THEN <<[device |-> d, phase |-> phase]>> \o rest
            ELSE rest

execute_tick(cycle, phase) == PhaseCallsFrom(te_execution_order, cycle, phase)

\* TickEngine._execute_tick: the tick calls of one master cycle when none raises
RECURSIVE PhasesCalls(_, _)
PhasesCalls(cycle, phases) ==
    IF phases = <<>> THEN <<>>
    ELSE execute_tick(cycle, Head(phases)) \o PhasesCalls(cycle, Tail(phases))

CycleCalls(cycle) ==
    PhasesCalls(cycle, TickPhases)
    \o (IF cycle % SyncInterval = 0 THEN execute_tick(cycle, "SYNC") ELSE <<>>)

\* the cycle counter has reached the cap of the model
CycleCapped == te_current_cycle \in {MaxCycles, SyncInterval - 2 + MaxCycles}

\* TickEngine._execute_tick with CycleCounter.tick; the call numbered
\* raising is the tick that raises (0: none does), which ends the cycle
\* with a RuntimeError
_execute_tick(raising) ==
    LET cycle == te_current_cycle + 1
        calls == CycleCalls(cycle)
    IN /\ raising <= Len(calls)
       /\ te_current_cycle' = cycle
       /\ te_tick_log' = IF raising = 0 THEN calls ELSE SubSeq(calls, 1, raising)
       /\ te_result' = IF raising = 0 THEN "True" ELSE "RuntimeError"

MaxCallsPerCycle == Cardinality(TickDevices) * (Len(TickPhases) + 1)

\* TickEngine.start with CycleCounter.start
TeStart ==
    /\ ~te_blocked
    /\ te_call' = "start"
    /\ te_result' = None
    /\ IF te_running
       THEN UNCHANGED <<te_running, te_paused, te_current_cycle>>
       ELSE /\ te_running' = TRUE
            /\ te_paused' = FALSE
            /\ te_current_cycle' = 0
    /\ UNCHANGED <<te_tickables, te_priority_groups, te_execution_order, te_enabled,
                   te_step_mode, te_step_event, te_blocked>>
    /\ te_tick_log' = <<>>
    /\ tickOnly

\* TickEngine.stop
TeStop ==
    /\ ~te_blocked
    /\ te_call' = "stop"
    /\ te_result' = None
    /\ te_running' = FALSE
    /\ te_paused' = FALSE
    /\ te_step_event' = TRUE
    /\ UNCHANGED <<te_tickables, te_priority_groups, te_execution_order, te_enabled,
                   te_step_mode, te_blocked, te_current_cycle>>
    /\ te_tick_log' = <<>>
    /\ tickOnly

\* TickEngine.pause
TePause ==
    /\ ~te_blocked
    /\ te_call' = "pause"
    /\ te_result' = None
    /\ te_paused' = TRUE
    /\ UNCHANGED <<te_tickables, te_priority_groups, te_execution_order, te_enabled,
                   te_running, te_step_mode, te_step_event, te_blocked,
                   te_current_cycle>>
    /\ te_tick_log' = <<>>
    /\ tickOnly

\* TickEngine.resume
TeResume ==
    /\ ~te_blocked
    /\ te_call' = "resume"
    /\ te_result' = None
    /\ te_paused' = FALSE
    /\ te_step_event' = TRUE
    /\ UNCHANGED <<te_tickables, te_priority_groups, te_execution_order, te_enabled,
                   te_running, te_step_mode, te_blocked, te_current_cycle>>
    /\ te_tick_log' = <<>>
    /\ tickOnly

\* TickEngine.reset with CycleCounter.reset
TeReset ==
    /\ ~te_blocked
    /\ te_call' = "reset"
    /\ te_result' = None
    /\ te_current_cycle' = 0
    /\ UNCHANGED <<te_tickables, te_priority_groups, te_execution_order, te_enabled,
                   te_running, te_paused, te_step_mode, te_step_event, te_blocked>>
    /\ te_tick_log' = <<>>
    /\ tickOnly

\* TickEngine.step
TeStep(raising) ==
    /\ ~te_blocked
    /\ te_call' = "step"
    /\ IF ~te_running
       THEN /\ raising = 0
            /\ te_result' = "False"
            /\ te_tick_log' = <<>>
            /\ UNCHANGED <<te_step_mode, te_paused, te_current_cycle>>
       ELSE /\ ~CycleCapped
            /\ te_step_mode' = TRUE
            /\ te_paused' = FALSE
            /\ _execute_tick(raising)
    /\ UNCHANGED <<te_tickables, te_priority_groups, te_execution_order, te_enabled,
                   te_running, te_step_event, te_blocked>>
    /\ tickOnly

\* TickEngine.tick
TeTick(raising) ==
    /\ ~te_blocked
    /\ te_call' = "tick"
    /\ IF ~te_running
       THEN /\ raising = 0
            /\ te_result' = "False"
            /\ te_tick_log' = <<>>
            /\ UNCHANGED <<te_step_mode, te_step_event, te_blocked, te_current_cycle>>
       ELSE IF te_paused /\ ~te_step_mode /\ ~te_step_event
       THEN \* _step_event.wait() does not return
            /\ raising = 0
            /\ te_blocked' = TRUE
            /\ te_result' = "blocked"
            /\ te_tick_log' = <<>>
            /\ UNCHANGED <<te_step_mode, te_step_event, te_current_cycle>>
       ELSE /\ ~CycleCapped
            /\ te_step_mode' = IF te_paused THEN FALSE ELSE te_step_mode
            /\ te_step_event' = IF te_paused /\ ~te_step_mode THEN FALSE ELSE te_step_event
            /\ _execute_tick(raising)
            /\ UNCHANGED te_blocked
    /\ UNCHANGED <<te_tickables, te_priority_groups, te_execution_order, te_enabled,
                   te_running, te_paused>>
    /\ tickOnly

(***************************************************************************)
(* DeviceScheduler and ExecutionQueue (core/scheduler.py).  Every device   *)
(* type creates one task, so a task is named by its device.  Nothing puts  *)
(* a task on _waiting_queue, which stays empty and is left out, as are the *)
(* statistics and the hooks.  The FAIR_SHARE policy selects by measured    *)
(* wall-clock time and is not among the configurations explored.           *)
(***************************************************************************)
\* the devices offered to register_device, with the DeviceType of each
SchedDevices == {"cpu", "ram", "via"}
SchedDeviceType == [cpu |-> "CPU", ram |-> "MEMORY", via |-> "IO"]
\* the policies explored (REAL_TIME selects as ROUND_ROBIN does, see SelectTask)
SchedPolicies == {"PRIORITY_BASED", "ROUND_ROBIN"}
\* the priorities offered to set_device_priority
SchedPriorityInputs == {0}
\* the sets of devices whose tick raises in a cycle: none or one of them
RaisingInputs == {{}} \cup {{d} : d \in SchedDevices}

\* DeviceScheduler._phase_order
phase_order_Mutant ==
    <<"PERIPHERAL_UPDATE", "CPU_EXECUTION", "INTERRUPT_PROCESSING", "MEMORY_SYNC", "CLEANUP">>

phase_order ==
    <<"CPU_EXECUTION", "PERIPHERAL_UPDATE", "INTERRUPT_PROCESSING", "MEMORY_SYNC", "CLEANUP">>

\* DeviceScheduler._create_device_tasks: priority and phase by device type
TaskPriorityOf(device_type) ==
    IF device_type = "CPU" THEN 1
    ELSE IF device_type = "MEMORY" THEN 2
    ELSE IF device_type = "IO" THEN 3
    ELSE 4

TaskPhaseOf(device_type) ==
    IF device_type = "CPU" THEN "CPU_EXECUTION"
    ELSE IF device_type = "MEMORY" THEN "MEMORY_SYNC"
    ELSE "PERIPHERAL_UPDATE"

\* ExecutionTask: the fields the scheduler reads
ExecutionTask(d) ==
    [device_type |-> SchedDeviceType[d], phase |-> TaskPhaseOf(SchedDeviceType[d]),
     priority |-> TaskPriorityOf(SchedDeviceType[d]), state |-> "READY",
     blocked_until_cycle |-> 0]

\* a scheduler constructed with the given policy
InitSchedWith(policy) ==
    /\ ds_policy = policy
    /\ ds_registered_devices = {}
    /\ ds_tasks = [t \in {} |-> ExecutionTask("cpu")]
    /\ ds_ready_queue = <<>>
    /\ ds_blocked_queue = <<>>
    /\ ds_completed_queue = <<>>
    /\ ds_current_task = None
    /\ ds_current_cycle = 0
    /\ ds_log = <<>>
    /\ ds_call = "init"

\* membership in a Python list
InList(s, x) == \E i \in 1..Len(s) : s[i] = x

\* ExecutionTask.__lt__
TaskLess(tasks, a, b) == tasks[a].priority < tasks[b].priority

\* heapq._siftdown (0-based positions)
RECURSIVE _siftdown(_, _, _, _, _)
_siftdown(tasks, heap, startpos, pos, newitem) ==
    LET parentpos == (pos - 1) \div 2
    IN IF pos > startpos /\ TaskLess(tasks, newitem, heap[parentpos + 1])
       THEN _siftdown(tasks, [heap EXCEPT ![pos + 1] = heap[parentpos + 1]],
                      startpos, parentpos, newitem)
       ELSE [heap EXCEPT ![pos + 1] = newitem]

\* heapq._siftup: the loop that bubbles the smaller child up
RECURSIVE SiftUpLoop(_, _, _, _, _)
SiftUpLoop(tasks, heap, startpos, pos, newitem) ==
    LET childpos == 2 * pos + 1
        rightpos == childpos + 1
        c == IF rightpos < Len(heap)
                /\ ~TaskLess(tasks, heap[childpos + 1], heap[rightpos + 1])
             THEN rightpos ELSE childpos
    IN IF childpos < Len(heap)
       THEN SiftUpLoop(tasks, [heap EXCEPT ![pos + 1] = heap[c + 1]], startpos, c, newitem)
       ELSE _siftdown(tasks, [heap EXCEPT ![pos + 1] = newitem], startpos, pos, newitem)

_siftup(tasks, heap, pos) == SiftUpLoop(tasks, heap, pos, pos, heap[pos + 1])

\* heapq.heappush
heappush(tasks, heap, item) ==
    _siftdown(tasks, Append(heap, item), 0, Len(heap), item)

\* heapq.heappop: the item returned and the heap left
heappop(tasks, heap) ==
    LET lastelt == heap[Len(heap)]
        rest == SubSeq(heap, 1, Len(heap) - 1)
    IN IF rest # <<>>
       THEN [item |-> rest[1], heap |-> _siftup(tasks, [rest EXCEPT ![1] = lastelt], 0)]
       ELSE [item |-> lastelt, heap |-> rest]

\* heapq.heapify
RECURSIVE HeapifyFrom(_, _, _)
HeapifyFrom(tasks, heap, i) ==
    IF i < 0 THEN heap ELSE HeapifyFrom(tasks, _siftup(tasks, heap, i), i - 1)

heapify(tasks, heap) == HeapifyFrom(tasks, heap, (Len(heap) \div 2) - 1)

\* the state of the ExecutionQueue as one value
Queue ==
    [tasks |-> ds_tasks, ready |-> ds_ready_queue, blocked |-> ds_blocked_queue,
     completed |-> ds_completed_queue, current |-> ds_current_task]

\* ExecutionQueue._remove_from_all_queues
_remove_from_all_queues(q, t) ==
    [q EXCEPT
        !.ready = IF InList(q.ready, t) THEN heapify(q.tasks, ListRemove(q.ready, t))
                  ELSE q.ready,
        !.blocked = ListRemove(q.blocked, t),
        !.completed = ListRemove(q.completed, t)]

\* ExecutionQueue._add_to_ready_queue
_add_to_ready_queue(q, t) ==
    LET tasks == [q.tasks EXCEPT ![t].state = "READY"]
    IN [q EXCEPT !.tasks = tasks, !.ready = heappush(tasks, q.ready, t)]

\* ExecutionQueue._move_to_ready_queue
_move_to_ready_queue(q, t) == _add_to_ready_queue(_remove_from_all_queues(q, t), t)

\* ExecutionQueue._move_to_blocked_queue
_move_to_blocked_queue(q, t) ==
    LET r == _remove_from_all_queues(q, t)
    IN [r EXCEPT !.blocked = Append(r.blocked, t)]

\* ExecutionQueue._move_to_completed_queue
_move_to_completed_queue(q, t) ==
    LET r == _remove_from_all_queues(q, t)
    IN [r EXCEPT !.completed = Append(r.completed, t)]

\* ExecutionQueue.add_task
add_task(q, t, task) ==
    _add_to_ready_queue([q EXCEPT !.tasks =
        [x \in DOMAIN q.tasks \cup {t} |-> IF x = t THEN task ELSE q.tasks[x]]], t)

\* ExecutionQueue.remove_task
remove_task(q, t) ==
    IF t \notin DOMAIN q.tasks THEN q
    ELSE LET r == _remove_from_all_queues(q, t)
         IN [r EXCEPT !.current = IF r.current = t THEN None ELSE r.current,
                      !.tasks = [x \in DOMAIN r.tasks \ {t} |-> r.tasks[x]]]

\* ExecutionQueue.block_task
block_task(q, t, until_cycle) ==
    IF t \notin DOMAIN q.tasks THEN q
    ELSE _move_to_blocked_queue(
             [q EXCEPT !.tasks[t].state = "BLOCKED",
                       !.tasks[t].blocked_until_cycle = until_cycle], t)

\* ExecutionQueue.unblock_task
unblock_task(q, t) ==
    IF t \notin DOMAIN q.tasks THEN q
    ELSE IF q.tasks[t].state = "BLOCKED"
    THEN _move_to_ready_queue(
             [q EXCEPT !.tasks[t].state = "READY",
                       !.tasks[t].blocked_until_cycle = 0], t)
    ELSE q

\* ExecutionQueue._update_blocked_tasks
RECURSIVE UnblockAll(_, _)
UnblockAll(q, ts) ==
    IF ts = <<>> THEN q ELSE UnblockAll(unblock_task(q, Head(ts)), Tail(ts))

_update_blocked_tasks(q, current_cycle) ==
    UnblockAll(q, SelectSeq(q.blocked,
                   LAMBDA t : current_cycle >= q.tasks[t].blocked_until_cycle))

\* the task a policy takes from a non-empty ready queue, and the queue left:
\* _get_highest_priority_task pops the heap; _get_round_robin_task takes the
\* first entry, as does _get_real_time_task, whose deadlines are all equal
\* (no task's last_execution_cycle or cycle_interval is ever changed)
SelectTask(policy, tasks, ready) ==
    IF policy = "PRIORITY_BASED" THEN heappop(tasks, ready)
    ELSE [item |-> ready[1], heap |-> heapify(tasks, Tail(ready))]

\* ExecutionQueue.get_next_task: the task returned (None when the ready
\* queue is empty) and the queue afterwards
get_next_task(q, current_cycle, policy) ==
    LET u == _update_blocked_tasks(q, current_cycle)
    IN IF u.ready = <<>> THEN [task |-> None, queue |-> u]
       ELSE LET sel == SelectTask(policy, u.tasks, u.ready)
            IN [task |-> sel.item,
                queue |-> [u EXCEPT !.ready = sel.heap,
                                    !.tasks[sel.item].state = "RUNNING",
                                    !.current = sel.item]]

\* ExecutionQueue.mark_task_completed
mark_task_completed(q, t) ==
    IF t \notin DOMAIN q.tasks THEN q
    ELSE LET r == _move_to_completed_queue([q EXCEPT !.tasks[t].state = "COMPLETED"], t)
         IN [r EXCEPT !.current = IF r.current = t THEN None ELSE r.current]

\* DeviceScheduler._execute_phase: the loop over the tasks of one phase;
\* raising is the set of devices whose tick raises in this cycle
RECURSIVE _execute_phase(_, _, _, _, _, _)
_execute_phase(q, log, cycle, phase, policy, raising) ==
    LET n == get_next_task(q, cycle, policy)
        t == n.task
    IN IF t = None \/ n.queue.tasks[t].phase # phase
       THEN [queue |-> n.queue, log |-> log]
       ELSE LET ticked == Append(log, [kind |-> "tick", what |-> t])
            IN IF t \in raising
               THEN _execute_phase(n.queue, ticked, cycle, phase, policy, raising)
               ELSE _execute_phase(mark_task_completed(n.queue, t), ticked,
                                   cycle, phase, policy, raising)

\* DeviceScheduler.execute_cycle: the loop over the phases
RECURSIVE ExecutePhases(_, _, _, _, _, _)
ExecutePhases(q, log, cycle, phases, policy, raising) ==
    IF phases = <<>> THEN [queue |-> q, log |-> log]
    ELSE LET r == _execute_phase(q, Append(log, [kind |-> "phase", what |-> Head(phases)]),
                                 cycle, Head(phases), policy, raising)
         IN ExecutePhases(r.queue, r.log, cycle, Tail(phases), policy, raising)

SetQueue(q) ==
    /\ ds_tasks' = q.tasks
    /\ ds_ready_queue' = q.ready
    /\ ds_blocked_queue' = q.blocked
    /\ ds_completed_queue' = q.completed
    /\ ds_current_task' = q.current

\* DeviceScheduler.execute_cycle
DsExecuteCycle(cycle, raising) ==
    /\ LET r == ExecutePhases(Queue, <<>>, cycle, phase_order, ds_policy, raising)
       IN /\ raising \subseteq ds_registered_devices
          /\ ds_call' = "execute_cycle"
          /\ ds_current_cycle' = cycle
          /\ SetQueue(r.queue)
          /\ ds_log' = r.log
          /\ UNCHANGED <<ds_policy, ds_registered_devices>>
    /\ schedOnly

\* DeviceScheduler.register_device
DsRegisterDevice(d) ==
    /\ d \notin ds_registered_devices
    /\ ds_call' = "register_device"
    /\ ds_registered_devices' = ds_registered_devices \cup {d}
    /\ SetQueue(add_task(Queue, d, ExecutionTask(d)))
    /\ ds_log' = <<>>
    /\ UNCHANGED <<ds_policy, ds_current_cycle>>
    /\ schedOnly

\* DeviceScheduler.unregister_device
DsUnregisterDevice(d) ==
    /\ d \in ds_registered_devices
    /\ ds_call' = "unregister_device"
    /\ ds_registered_devices' = ds_registered_devices \ {d}
    /\ SetQueue(remove_task(Queue, d))
    /\ ds_log' = <<>>
    /\ UNCHANGED <<ds_policy, ds_current_cycle>>
    /\ schedOnly

\* DeviceScheduler.set_device_priority
DsSetDevicePriority(d, priority) ==
    /\ d \in ds_registered_devices
    /\ ds_tasks[d].priority # priority
    /\ ds_call' = "set_device_priority"
    /\ ds_tasks' = [ds_tasks EXCEPT ![d].priority = priority]
    /\ ds_log' = <<>>
    /\ UNCHANGED <<ds_policy, ds_registered_devices, ds_ready_queue, ds_blocked_queue,
                   ds_completed_queue, ds_current_task, ds_current_cycle>>
    /\ schedOnly

\* DeviceScheduler.block_device
DsBlockDevice(d, until_cycle) ==
    /\ d \in ds_registered_devices
    /\ ds_call' = "block_device"
    /\ SetQueue(block_task(Queue, d, until_cycle))
    /\ ds_log' = <<>>
    /\ UNCHANGED <<ds_policy, ds_registered_devices, ds_current_cycle>>
    /\ schedOnly

\* DeviceScheduler.unblock_device
DsUnblockDevice(d) ==
    /\ d \in ds_registered_devices
    /\ ds_tasks[d].state = "BLOCKED"
    /\ ds_call' = "unblock_device"
    /\ SetQueue(unblock_task(Queue, d))
    /\ ds_log' = <<>>
    /\ UNCHANGED <<ds_policy, ds_registered_devices, ds_current_cycle>>
    /\ schedOnly

(***************************************************************************)
(* CPU registers (cpu/registers.py, cpu/flags.py) and InterruptHandler     *)
(* (cpu/interrupt_handler.py). The handler reaches the CPU through its     *)
(* four accessors: the state accessors read and write pc, s and p of the   *)
(* registers, the memory accessors read and write cpu_mem. Statistics,     *)
(* hooks and logging are left out.                                         *)
(***************************************************************************)
\* ProcessorFlags.FLAG_B, FLAG_D, FLAG_I
FLAG_B == 16
FLAG_D == 8
FLAG_I == 4

\* flag is set in the status byte p (p & flag)
FlagSet(p, flag) == (p \div flag) % 2 = 1
\* p | flag and p & ~flag
WithFlag(p, flag) == IF FlagSet(p, flag) THEN p ELSE p + flag
WithoutFlag(p, flag) == IF FlagSet(p, flag) THEN p - flag ELSE p

\* ProcessorFlags.interrupt: what the state accessor gives as
\* interrupt_disable_flag
interrupt_disable_flag == FlagSet(cpu_p, FLAG_I)

\* CPURegisters.decrement_s
decrement_s_Mutant(s) == s - 1

decrement_s(s) == (s - 1) % 256

\* CPURegisters.increment_s
increment_s(s) == (s + 1) % 256

\* CPURegisters.get_stack_address
get_stack_address(s) == 256 + s

\* a read through the memory accessor; a byte never written reads 0
MemRead(mem, address) == IF address \in DOMAIN mem THEN mem[address] ELSE 0

\* a write through the memory modifier
MemWrite(mem, address, value) ==
    [a \in DOMAIN mem \cup {address} |-> IF a = address THEN value ELSE mem[a]]

\* the bytes at the three vectors: NMI -> 0xA012, RESET -> 0xC034, IRQ -> 0xE056
VectorTable ==
    (65530 :> 18) @@ (65531 :> 160) @@ (65532 :> 52) @@ (65533 :> 192)
    @@ (65534 :> 86) @@ (65535 :> 224)

\* the little-endian word of mem at address
Word16(mem, address) == MemRead(mem, address) + 256 * MemRead(mem, address + 1)

\* register values the CPU is constructed with
PcInputs == {36864}
SInputs == {255, 1}
PInputs == {52, 56}

\* InterruptHandler._current_sequence and _current_context when None
NoSequence ==
    [interrupt_type |-> None, vector_address |-> -1, current_cycle |-> -1,
     total_cycles |-> -1, state |-> "IDLE", saved_pc |-> -1, saved_status |-> -1]
NoContext ==
    [interrupt_type |-> None, start_cycle |-> -1, pc_before |-> -1,
     status_before |-> -1, stack_pointer_before |-> -1, total_cycles_taken |-> 0]

\* the record of a call on the handler or the registers
HandlerCall(op, cycle, result, failed, completed) ==
    [op |-> op, cycle |-> cycle, result |-> result, failed |-> failed,
     completed |-> completed]

\* CPURegisters(pc, s, p) and InterruptHandler.__init__
InitCpuAt(pc, s, p) ==
    /\ cpu_pc = pc
    /\ cpu_s = s
    /\ cpu_p = p
    /\ cpu_mem = VectorTable
    /\ mem_log = <<>>
    /\ ih_sequence = NoSequence
    /\ ih_context = NoContext
    /\ ih_history = <<>>
    /\ ih_call = HandlerCall("init", -1, None, "none", FALSE)
    /\ cpu_cycle = 0

\* CPURegisters() with its defaults
InitCpu == InitCpuAt(0, 255, 52)

\* the callbacks of the handler that may raise during a step
FailInputs == {"none", "memory_modifier", "cpu_state_modifier", "memory_accessor"}

\* InterruptSequence.current_cycle of the sequence created for vector_info
InitialSequenceCycle_Mutant(vector_info) == 1
InitialSequenceCycle(vector_info) == 0

\* the CPU as a step of the sequence sees and leaves it
CpuNow(sequence) ==
    [pc |-> cpu_pc, s |-> cpu_s, p |-> cpu_p, mem |-> cpu_mem, log |-> mem_log,
     saved_pc |-> sequence.saved_pc, raised |-> FALSE]

\* the stack pointer a push of the handler leaves
StackPointerAfterPush_Mutant(stack_pointer) == (stack_pointer + 1) % 256

StackPointerAfterPush(stack_pointer) == (stack_pointer - 1) % 256

\* the body shared by _push_pch_to_stack, _push_pcl_to_stack and
\* _push_status_to_stack: write the byte at 0x0100 + stack_pointer, then
\* decrement the stack pointer and hand the state to the state modifier
PushToStack(st, byte, fail) ==
    LET stack_address == 256 + st.s
        written == [st EXCEPT !.mem = MemWrite(st.mem, stack_address, byte),
                              !.log = Append(st.log, [op |-> "write",
                                                      address |-> stack_address,
                                                      value |-> byte])]
    IN IF fail = "memory_modifier" THEN [st EXCEPT !.raised = TRUE]
       ELSE IF fail = "cpu_state_modifier" THEN [written EXCEPT !.raised = TRUE]
       ELSE [written EXCEPT !.s = StackPointerAfterPush(st.s)]

\* InterruptHandler._push_pch_to_stack
_push_pch_to_stack(st, sequence, fail) ==
    PushToStack(st, (sequence.saved_pc \div 256) % 256, fail)

\* InterruptHandler._push_pcl_to_stack
_push_pcl_to_stack(st, sequence, fail) ==
    PushToStack(st, sequence.saved_pc % 256, fail)

\* the status byte _push_status_to_stack pushes
StatusToPush(sequence) ==
    IF sequence.interrupt_type = "IRQ"
    THEN WithoutFlag(sequence.saved_status, FLAG_B)
    ELSE sequence.saved_status

\* InterruptHandler._push_status_to_stack
_push_status_to_stack(st, sequence, fail) ==
    PushToStack(st, StatusToPush(sequence), fail)

\* InterruptHandler._set_interrupt_flags
_set_interrupt_flags(st, fail) ==
    IF fail = "cpu_state_modifier" THEN [st EXCEPT !.raised = TRUE]
    ELSE [st EXCEPT !.p = WithoutFlag(WithFlag(st.p, FLAG_I), FLAG_D)]

\* InterruptHandler._load_vector_low
_load_vector_low(st, sequence, fail) ==
    IF fail = "memory_accessor" THEN [st EXCEPT !.raised = TRUE]
    ELSE LET vector_low == MemRead(st.mem, sequence.vector_address)
         IN [st EXCEPT !.saved_pc = (sequence.saved_pc \div 256) * 256 + vector_low,
                       !.log = Append(st.log, [op |-> "read",
                                               address |-> sequence.vector_address,
                                               value |-> vector_low])]

\* InterruptHandler._load_vector_high_and_jump
_load_vector_high_and_jump(st, sequence, fail) ==
    IF fail = "memory_accessor" THEN [st EXCEPT !.raised = TRUE]
    ELSE LET vector_address == sequence.vector_address + 1
             vector_high == MemRead(st.mem, vector_address)
             read == [st EXCEPT !.log = Append(st.log, [op |-> "read",
                                                        address |-> vector_address,
                                                        value |-> vector_high])]
         IN IF fail = "cpu_state_modifier" THEN [read EXCEPT !.raised = TRUE]
            ELSE [read EXCEPT !.pc = vector_high * 256 + (sequence.saved_pc % 256)]

\* the state _execute_sequence_step gives the sequence in each cycle
SequenceStates ==
    <<"FETCH_VECTOR", "PUSH_PCH", "PUSH_PCL", "PUSH_STATUS", "SET_FLAGS",
      "LOAD_VECTOR", "COMPLETED">>

\* the callbacks the step of each cycle calls that may raise
StepCallbacks ==
    <<{}, {"memory_modifier", "cpu_state_modifier"},
      {"memory_modifier", "cpu_state_modifier"},
      {"memory_modifier", "cpu_state_modifier"}, {"cpu_state_modifier"},
      {"memory_accessor"}, {"memory_accessor", "cpu_state_modifier"}>>

\* InterruptHandler._execute_sequence_step: the CPU as the step leaves it
_execute_sequence_step(sequence, fail) ==
    LET cycle_in_sequence == sequence.current_cycle
        st == CpuNow(sequence)
    IN CASE cycle_in_sequence = 0 -> st
         [] cycle_in_sequence = 1 -> _push_pch_to_stack(st, sequence, fail)
         [] cycle_in_sequence = 2 -> _push_pcl_to_stack(st, sequence, fail)
         [] cycle_in_sequence = 3 -> _push_status_to_stack(st, sequence, fail)
         [] cycle_in_sequence = 4 -> _set_interrupt_flags(st, fail)
         [] cycle_in_sequence = 5 -> _load_vector_low(st, sequence, fail)
         [] cycle_in_sequence = 6 -> _load_vector_high_and_jump(st, sequence, fail)
         [] OTHER -> st

\* InterruptHandler._start_interrupt_sequence, on behalf of the handler
\* method op
StartSequence(vector_info, current_cycle, op) ==
    /\ ih_sequence' =
           [interrupt_type |-> vector_info.interrupt_type,
            vector_address |-> vector_info.vector_address,
            current_cycle |-> InitialSequenceCycle(vector_info),
            total_cycles |-> vector_info.cycles,
            state |-> "IDLE",
            saved_pc |-> cpu_pc,
            saved_status |-> cpu_p]
    /\ ih_context' =
           [interrupt_type |-> vector_info.interrupt_type,
            start_cycle |-> current_cycle,
            pc_before |-> cpu_pc,
            status_before |-> cpu_p,
            stack_pointer_before |-> cpu_s,
            total_cycles_taken |-> 0]
    /\ ih_call' = HandlerCall(op, current_cycle, "True", "none", FALSE)
    /\ mem_log' = <<>>
    /\ UNCHANGED <<cpu_pc, cpu_s, cpu_p, cpu_mem, ih_history>>

\* _start_interrupt_sequence as check_and_handle_interrupts calls it
_start_interrupt_sequence(vector_info, current_cycle) ==
    StartSequence(vector_info, current_cycle, "check_and_handle_interrupts")

\* InterruptHandler._complete_interrupt_sequence
_complete_interrupt_sequence(sequence) ==
    /\ ih_history' = Append(ih_history,
                            [ih_context EXCEPT
                                 !.total_cycles_taken = sequence.current_cycle + 1])
    /\ complete_interrupt_service
    /\ ih_sequence' = NoSequence
    /\ ih_context' = NoContext

\* InterruptHandler._abort_interrupt_sequence
_abort_interrupt_sequence ==
    /\ ih_sequence' = NoSequence
    /\ ih_context' = NoContext

\* InterruptHandler._continue_interrupt_sequence; the callback named by fail
\* raises when the step calls it
_continue_interrupt_sequence(current_cycle, fail) ==
    LET st == _execute_sequence_step(ih_sequence, fail)
        sequence == [ih_sequence EXCEPT
                         !.state = SequenceStates[ih_sequence.current_cycle + 1],
                         !.saved_pc = st.saved_pc,
                         !.current_cycle = ih_sequence.current_cycle + 1]
    IN /\ fail = "none" \/ fail \in StepCallbacks[ih_sequence.current_cycle + 1]
       /\ cpu_pc' = st.pc
       /\ cpu_s' = st.s
       /\ cpu_p' = st.p
       /\ cpu_mem' = st.mem
       /\ mem_log' = st.log
       /\ IF st.raised
          THEN /\ _abort_interrupt_sequence
               /\ ih_call' = HandlerCall("check_and_handle_interrupts", current_cycle,
                                         "False", fail, FALSE)
               /\ UNCHANGED <<icVars, ih_history>>
          ELSE IF sequence.state = "COMPLETED"
          THEN /\ _complete_interrupt_sequence(sequence)
               /\ ih_call' = HandlerCall("check_and_handle_interrupts", current_cycle,
                                         "False", "none", TRUE)
          ELSE /\ ih_sequence' = sequence
               /\ ih_call' = HandlerCall("check_and_handle_interrupts", current_cycle,
                                         "True", "none", FALSE)
               /\ UNCHANGED <<icVars, ih_context, ih_history>>

\* InterruptHandler.check_and_handle_interrupts, called with the cycle
\* number of the caller, which then moves to the next cycle
check_and_handle_interrupts(current_cycle, fail) ==
    /\ IF ih_sequence # NoSequence
       THEN _continue_interrupt_sequence(current_cycle, fail)
       ELSE /\ fail = "none"
            /\ IF ~is_pending
               THEN /\ ih_call' = HandlerCall("check_and_handle_interrupts", current_cycle,
                                              "False", "none", FALSE)
                    /\ mem_log' = <<>>
                    /\ UNCHANGED <<icVars, cpu_pc, cpu_s, cpu_p, cpu_mem,
                                   ih_sequence, ih_context, ih_history>>
               ELSE /\ acknowledge(~interrupt_disable_flag)
                    /\ IF ic_result' = NoVector
                       THEN /\ ih_call' = HandlerCall("check_and_handle_interrupts",
                                                      current_cycle, "False", "none", FALSE)
                            /\ mem_log' = <<>>
                            /\ UNCHANGED <<cpu_pc, cpu_s, cpu_p, cpu_mem,
                                           ih_sequence, ih_context, ih_history>>
                       ELSE _start_interrupt_sequence(ic_result', current_cycle)

\* a call of check_and_handle_interrupts with the number of the call as the
\* current cycle
CheckAndHandleInterrupts(fail) ==
    /\ cpu_cycle < MaxCheckCycle
    /\ cpu_cycle' = cpu_cycle + 1
    /\ check_and_handle_interrupts(cpu_cycle, fail)
    /\ UNCHANGED <<busVars, dataVars, tickVars, schedVars, exeVars, arbVars, orcVars, bpVars, regVars, ptrVars>>

\* a sequence is in progress: self._current_sequence is not None
SequenceInProgress_Mutant(sequence) == FALSE
SequenceInProgress(sequence) == sequence # NoSequence

\* the vector information force_interrupt builds for an interrupt type
ForcedVectorInfo(t) ==
    [vector_address |-> INTERRUPT_VECTORS[t],
     interrupt_type |-> t,
     cycles |-> INTERRUPT_CYCLES[t]]

\* InterruptHandler.force_interrupt
ForceInterrupt(t) ==
    /\ IF SequenceInProgress(ih_sequence)
       THEN /\ ih_call' = HandlerCall("force_interrupt", 0, "False", "none", FALSE)
            /\ mem_log' = <<>>
            /\ UNCHANGED <<cpu_pc, cpu_s, cpu_p, cpu_mem, ih_sequence, ih_context,
                           ih_history>>
       ELSE StartSequence(ForcedVectorInfo(t), 0, "force_interrupt")
    /\ UNCHANGED cpu_cycle
    /\ cpuOnly

\* the CPU executes no instruction and restores no state while an entry
\* sequence is in progress
CpuIdle == ih_sequence = NoSequence

\* CPURegisters.reset
RegistersReset ==
    /\ CpuIdle
    /\ cpu_s' = 255
    /\ cpu_pc' = 0
    /\ cpu_p' = 52
    /\ mem_log' = <<>>
    /\ ih_call' = HandlerCall("reset", -1, None, "none", FALSE)
    /\ UNCHANGED <<cpu_mem, ih_sequence, ih_context, ih_history, cpu_cycle>>
    /\ cpuOnly

\* the states offered to CPURegisters.set_state: a valid one, one whose S is
\* out of range and one whose PC is
StateInputs ==
    {[PC |-> 4863, S |-> 0, P |-> 40], [PC |-> 36864, S |-> 256, P |-> 48],
     [PC |-> 65536, S |-> 1, P |-> 52]}

\* CPURegisters.set_state: set_pc, set_s and set_p in this order, each
\* raising ValueError for a value out of range
RegistersSetState(state) ==
    LET pc_ok == state.PC \in 0..65535
        s_ok == state.S \in 0..255
        p_ok == state.P \in 0..255
    IN /\ CpuIdle
       /\ cpu_pc' = IF pc_ok THEN state.PC ELSE cpu_pc
       /\ cpu_s' = IF pc_ok /\ s_ok THEN state.S ELSE cpu_s
       /\ cpu_p' = IF pc_ok /\ s_ok /\ p_ok THEN state.P ELSE cpu_p
       /\ mem_log' = <<>>
       /\ ih_call' = IF ~pc_ok THEN HandlerCall("set_state", -1, "ValueError", "set_pc", FALSE)
                     ELSE IF ~s_ok THEN HandlerCall("set_state", -1, "ValueError", "set_s", FALSE)
                     ELSE IF ~p_ok THEN HandlerCall("set_state", -1, "ValueError", "set_p", FALSE)
                     ELSE HandlerCall("set_state", -1, None, "none", FALSE)
       /\ UNCHANGED <<cpu_mem, ih_sequence, ih_context, ih_history, cpu_cycle>>
       /\ cpuOnly

\* the byte pushed by a push instruction
PushInputs == {90}

\* a push instruction of the CPU: write the byte at the stack address, then
\* decrement S; the instruction takes a cycle of the caller
StackPush(value) ==
    /\ CpuIdle
    /\ cpu_cycle < MaxCheckCycle
    /\ cpu_cycle' = cpu_cycle + 1
    /\ cpu_mem' = MemWrite(cpu_mem, get_stack_address(cpu_s), value)
    /\ mem_log' = <<[op |-> "write", address |-> get_stack_address(cpu_s),
                     value |-> value]>>
    /\ cpu_s' = decrement_s(cpu_s)
    /\ ih_call' = HandlerCall("push", cpu_cycle, None, "none", FALSE)
    /\ UNCHANGED <<cpu_pc, cpu_p, ih_sequence, ih_context, ih_history>>
    /\ cpuOnly

\* a pull instruction of the CPU: increment S, then read the byte at the
\* stack address
StackPull ==
    /\ CpuIdle
    /\ cpu_cycle < MaxCheckCycle
    /\ cpu_cycle' = cpu_cycle + 1
    /\ cpu_s' = increment_s(cpu_s)
    /\ mem_log' = <<[op |-> "read", address |-> get_stack_address(increment_s(cpu_s)),
                     value |-> MemRead(cpu_mem, get_stack_address(increment_s(cpu_s)))]>>
    /\ ih_call' = HandlerCall("pull", cpu_cycle, None, "none", FALSE)
    /\ UNCHANGED <<cpu_pc, cpu_p, cpu_mem, ih_sequence, ih_context, ih_history>>
    /\ cpuOnly

(***************************************************************************)
(* The CPU and the interrupting devices on the TickEngine.  The engine     *)
(* calls tick(cycle, phase) of every registered tickable in every phase of *)
(* a master cycle (TickEngine._execute_tick, TickScheduler.execute_tick);  *)
(* one step of the model is one of these calls.  What a tick does is not   *)
(* code of src/: the CPU checks for interrupts at the top of its tick, a   *)
(* device may assert its IRQ source in its tick.  While a cycle is in      *)
(* progress te_call is "ticking" and te_tick_log holds the calls made so   *)
(* far, each with whether it asserted the IRQ.                             *)
(***************************************************************************)
\* a call of TickEngine.tick is in progress
SysTicking == te_call = "ticking"

\* the tick calls of the cycle in progress, and the one made next
SysCalls == CycleCalls(te_current_cycle)
SysNextCall == SysCalls[Len(te_tick_log) + 1]

\* the calls made between two cycles
SysRegisterTickable(d) == ~SysTicking /\ TeRegisterTickable(d)
SysStart == ~SysTicking /\ TeStart

\* TickEngine.tick of a running engine, up to the first tick call of
\* _execute_tick: CycleCounter.tick has advanced the cycle
SysTickBegin ==
    /\ ~SysTicking
    /\ ~te_blocked /\ te_running /\ ~te_paused
    /\ ~CycleCapped
    /\ te_call' = "ticking"
    /\ te_current_cycle' = te_current_cycle + 1
    /\ te_tick_log' = <<>>
    /\ te_result' = None
    /\ UNCHANGED <<te_tickables, te_priority_groups, te_execution_order, te_enabled,
                   te_running, te_paused, te_step_mode, te_step_event, te_blocked>>
    /\ tickOnly

\* the tick of a device other than the CPU, which asserts its IRQ source
\* or does not
SysDeviceTick(asserting) ==
    /\ SysTicking
    /\ Len(te_tick_log) < Len(SysCalls)
    /\ SysNextCall.device # "cpu"
    /\ te_tick_log' = Append(te_tick_log, [device |-> SysNextCall.device,
                                           phase |-> SysNextCall.phase,
                                           asserted |-> asserting])
    /\ IF asserting THEN assert_irq(SysNextCall.device) ELSE UNCHANGED icVars
    /\ UNCHANGED <<te_tickables, te_priority_groups, te_execution_order, te_enabled,
                   te_running, te_paused, te_step_mode, te_step_event, te_blocked,
                   te_current_cycle, te_call, te_result>>
    /\ UNCHANGED <<busVars, dataVars, schedVars, cpuVars, exeVars, arbVars, orcVars, bpVars, regVars, ptrVars>>

\* the tick of the CPU: the interrupt check at its top
SysCpuTick ==
    /\ SysTicking
    /\ Len(te_tick_log) < Len(SysCalls)
    /\ SysNextCall.device = "cpu"
    /\ te_tick_log' = Append(te_tick_log, [device |-> "cpu",
                                           phase |-> SysNextCall.phase,
                                           asserted |-> FALSE])
    /\ check_and_handle_interrupts(te_current_cycle, "none")
    /\ UNCHANGED <<te_tickables, te_priority_groups, te_execution_order, te_enabled,
                   te_running, te_paused, te_step_mode, te_step_event, te_blocked,
                   te_current_cycle, te_call, te_result>>
    /\ UNCHANGED <<busVars, dataVars, schedVars, cpu_cycle, exeVars, arbVars, orcVars, bpVars, regVars, ptrVars>>

\* TickEngine.tick returns after the last tick call of the cycle
SysTickEnd ==
    /\ SysTicking
    /\ Len(te_tick_log) = Len(SysCalls)
    /\ te_call' = "tick"
    /\ te_result' = "True"
    /\ UNCHANGED <<te_tickables, te_priority_groups, te_execution_order, te_enabled,
                   te_running, te_paused, te_step_mode, te_step_event, te_blocked,
                   te_current_cycle, te_tick_log>>
    /\ tickOnly

(***************************************************************************)
(* The instruction decoder, the index registers and the zero-page indexed  *)
(* addressing modes (cpu/decoder.py, cpu/registers.py, cpu/addressing.py). *)
(* exe_call holds the call made last with what it returned.                *)
(***************************************************************************)
\* a & b of two naturals
RECURSIVE BitAnd(_, _)
BitAnd(a, b) ==
    IF a = 0 \/ b = 0 THEN 0
    ELSE (a % 2) * (b % 2) + 2 * BitAnd(a \div 2, b \div 2)

\* InstructionInfo(opcode, instruction, addressing_mode, cycles, length)
InstructionInfo(opcode, instruction, addressing_mode, cycles, length) ==
    [opcode |-> opcode, instruction |-> instruction,
     addressing_mode |-> addressing_mode, cycles |-> cycles, length |-> length]

\* decode returned None
NoInstruction == InstructionInfo(-1, "None", "None", 0, 0)

\* InstructionDecoder._instruction_table as _build_instruction_table fills it
_instruction_table ==
    0 :> InstructionInfo(0, "BRK", "IMPLICIT", 7, 1) @@
    1 :> InstructionInfo(1, "ORA", "INDIRECT_X", 6, 2) @@
    4 :> InstructionInfo(4, "TSB", "ZERO_PAGE", 5, 2) @@
    5 :> InstructionInfo(5, "ORA", "ZERO_PAGE", 3, 2) @@
    6 :> InstructionInfo(6, "ASL", "ZERO_PAGE", 5, 2) @@
    7 :> InstructionInfo(7, "RMB0", "ZERO_PAGE", 5, 2) @@
    8 :> InstructionInfo(8, "PHP", "IMPLICIT", 3, 1) @@
    9 :> InstructionInfo(9, "ORA", "IMMEDIATE", 2, 2) @@
    10 :> InstructionInfo(10, "ASL", "ACCUMULATOR", 2, 1) @@
    12 :> InstructionInfo(12, "TSB", "ABSOLUTE", 6, 3) @@
    13 :> InstructionInfo(13, "ORA", "ABSOLUTE", 4, 3) @@
    14 :> InstructionInfo(14, "ASL", "ABSOLUTE", 6, 3) @@
    15 :> InstructionInfo(15, "BBR0", "RELATIVE", 5, 3) @@
    16 :> InstructionInfo(16, "BPL", "RELATIVE", 2, 2) @@
    17 :> InstructionInfo(17, "ORA", "INDIRECT_Y", 5, 2) @@
    18 :> InstructionInfo(18, "ORA", "INDIRECT_ZP", 5, 2) @@
    20 :> InstructionInfo(20, "TRB", "ZERO_PAGE", 5, 2) @@
    21 :> InstructionInfo(21, "ORA", "ZERO_PAGE_X", 4, 2) @@
    22 :> InstructionInfo(22, "ASL", "ZERO_PAGE_X", 6, 2) @@
    23 :> InstructionInfo(23, "RMB1", "ZERO_PAGE", 5, 2) @@
    24 :> InstructionInfo(24, "CLC", "IMPLICIT", 2, 1) @@
    25 :> InstructionInfo(25, "ORA", "ABSOLUTE_Y", 4, 3) @@
    26 :> InstructionInfo(26, "INC", "ACCUMULATOR", 2, 1) @@
    28 :> InstructionInfo(28, "TRB", "ABSOLUTE", 6, 3) @@
    29 :> InstructionInfo(29, "ORA", "ABSOLUTE_X", 4, 3) @@
    30 :> InstructionInfo(30, "ASL", "ABSOLUTE_X", 7, 3) @@
    31 :> InstructionInfo(31, "BBR1", "RELATIVE", 5, 3) @@
    32 :> InstructionInfo(32, "JSR", "ABSOLUTE", 6, 3) @@
    33 :> InstructionInfo(33, "AND", "INDIRECT_X", 6, 2) @@
    36 :> InstructionInfo(36, "BIT", "ZERO_PAGE", 3, 2) @@
    37 :> InstructionInfo(37, "AND", "ZERO_PAGE", 3, 2) @@
    38 :> InstructionInfo(38, "ROL", "ZERO_PAGE", 5, 2) @@
    39 :> InstructionInfo(39, "RMB2", "ZERO_PAGE", 5, 2) @@
    40 :> InstructionInfo(40, "PLP", "IMPLICIT", 4, 1) @@
    41 :> InstructionInfo(41, "AND", "IMMEDIATE", 2, 2) @@
    42 :> InstructionInfo(42, "ROL", "ACCUMULATOR", 2, 1) @@
    44 :> InstructionInfo(44, "BIT", "ABSOLUTE", 4, 3) @@
    45 :> InstructionInfo(45, "AND", "ABSOLUTE", 4, 3) @@
    46 :> InstructionInfo(46, "ROL", "ABSOLUTE", 6, 3) @@
    47 :> InstructionInfo(47, "BBR2", "RELATIVE", 5, 3) @@
    48 :> InstructionInfo(48, "BMI", "RELATIVE", 2, 2) @@
    49 :> InstructionInfo(49, "AND", "INDIRECT_Y", 5, 2) @@
    50 :> InstructionInfo(50, "AND", "INDIRECT_ZP", 5, 2) @@
    52 :> InstructionInfo(52, "BIT", "ZERO_PAGE_X", 4, 2) @@
    53 :> InstructionInfo(53, "AND", "ZERO_PAGE_X", 4, 2) @@
    54 :> InstructionInfo(54, "ROL", "ZERO_PAGE_X", 6, 2) @@
    55 :> InstructionInfo(55, "RMB3", "ZERO_PAGE", 5, 2) @@
    56 :> InstructionInfo(56, "SEC", "IMPLICIT", 2, 1) @@
    57 :> InstructionInfo(57, "AND", "ABSOLUTE_Y", 4, 3) @@
    58 :> InstructionInfo(58, "DEC", "ACCUMULATOR", 2, 1) @@
    60 :> InstructionInfo(60, "BIT", "ABSOLUTE_X", 4, 3) @@
    61 :> InstructionInfo(61, "AND", "ABSOLUTE_X", 4, 3) @@
    62 :> InstructionInfo(62, "ROL", "ABSOLUTE_X", 7, 3) @@
    63 :> InstructionInfo(63, "BBR3", "RELATIVE", 5, 3) @@
    64 :> InstructionInfo(64, "RTI", "IMPLICIT", 6, 1) @@
    65 :> InstructionInfo(65, "EOR", "INDIRECT_X", 6, 2) @@
    69 :> InstructionInfo(69, "EOR", "ZERO_PAGE", 3, 2) @@
    70 :> InstructionInfo(70, "LSR", "ZERO_PAGE", 5, 2) @@
    71 :> InstructionInfo(71, "RMB4", "ZERO_PAGE", 5, 2) @@
    72 :> InstructionInfo(72, "PHA", "IMPLICIT", 3, 1) @@
    73 :> InstructionInfo(73, "EOR", "IMMEDIATE", 2, 2) @@
    74 :> InstructionInfo(74, "LSR", "ACCUMULATOR", 2, 1) @@
    76 :> InstructionInfo(76, "JMP", "ABSOLUTE", 3, 3) @@
    77 :> InstructionInfo(77, "EOR", "ABSOLUTE", 4, 3) @@
    78 :> InstructionInfo(78, "LSR", "ABSOLUTE", 6, 3) @@
    79 :> InstructionInfo(79, "BBR4", "RELATIVE", 5, 3) @@
    80 :> InstructionInfo(80, "BVC", "RELATIVE", 2, 2) @@
    81 :> InstructionInfo(81, "EOR", "INDIRECT_Y", 5, 2) @@
    82 :> InstructionInfo(82, "EOR", "INDIRECT_ZP", 5, 2) @@
    85 :> InstructionInfo(85, "EOR", "ZERO_PAGE_X", 4, 2) @@
    86 :> InstructionInfo(86, "LSR", "ZERO_PAGE_X", 6, 2) @@
    87 :> InstructionInfo(87, "RMB5", "ZERO_PAGE", 5, 2) @@
    88 :> InstructionInfo(88, "CLI", "IMPLICIT", 2, 1) @@
    89 :> InstructionInfo(89, "EOR", "ABSOLUTE_Y", 4, 3) @@
    90 :> InstructionInfo(90, "PHY", "IMPLICIT", 3, 1) @@
    93 :> InstructionInfo(93, "EOR", "ABSOLUTE_X", 4, 3) @@
    94 :> InstructionInfo(94, "LSR", "ABSOLUTE_X", 7, 3) @@
    95 :> InstructionInfo(95, "BBR5", "RELATIVE", 5, 3) @@
    96 :> InstructionInfo(96, "RTS", "IMPLICIT", 6, 1) @@
    97 :> InstructionInfo(97, "ADC", "INDIRECT_X", 6, 2) @@
    100 :> InstructionInfo(100, "STZ", "ZERO_PAGE", 3, 2) @@
    101 :> InstructionInfo(101, "ADC", "ZERO_PAGE", 3, 2) @@
    102 :> InstructionInfo(102, "ROR", "ZERO_PAGE", 5, 2) @@
    103 :> InstructionInfo(103, "RMB6", "ZERO_PAGE", 5, 2) @@
    104 :> InstructionInfo(104, "PLA", "IMPLICIT", 4, 1) @@
    105 :> InstructionInfo(105, "ADC", "IMMEDIATE", 2, 2) @@
    106 :> InstructionInfo(106, "ROR", "ACCUMULATOR", 2, 1) @@
    108 :> InstructionInfo(108, "JMP", "INDIRECT", 5, 3) @@
    109 :> InstructionInfo(109, "ADC", "ABSOLUTE", 4, 3) @@
    110 :> InstructionInfo(110, "ROR", "ABSOLUTE", 6, 3) @@
    111 :> InstructionInfo(111, "BBR6", "RELATIVE", 5, 3) @@
    112 :> InstructionInfo(112, "BVS", "RELATIVE", 2, 2) @@
    113 :> InstructionInfo(113, "ADC", "INDIRECT_Y", 5, 2) @@
    114 :> InstructionInfo(114, "ADC", "INDIRECT_ZP", 5, 2) @@
    116 :> InstructionInfo(116, "STZ", "ZERO_PAGE_X", 4, 2) @@
    117 :> InstructionInfo(117, "ADC", "ZERO_PAGE_X", 4, 2) @@
    118 :> InstructionInfo(118, "ROR", "ZERO_PAGE_X", 6, 2) @@
    119 :> InstructionInfo(119, "RMB7", "ZERO_PAGE", 5, 2) @@
    120 :> InstructionInfo(120, "SEI", "IMPLICIT", 2, 1) @@
    121 :> InstructionInfo(121, "ADC", "ABSOLUTE_Y", 4, 3) @@
    122 :> InstructionInfo(122, "PLY", "IMPLICIT", 4, 1) @@
    124 :> InstructionInfo(124, "JMP", "INDIRECT_ABS_X", 6, 3) @@
    125 :> InstructionInfo(125, "ADC", "ABSOLUTE_X", 4, 3) @@
    126 :> InstructionInfo(126, "ROR", "ABSOLUTE_X", 7, 3) @@
    127 :> InstructionInfo(127, "BBR7", "RELATIVE", 5, 3) @@
    128 :> InstructionInfo(128, "BRA", "RELATIVE", 3, 2) @@
    129 :> InstructionInfo(129, "STA", "INDIRECT_X", 6, 2) @@
    132 :> InstructionInfo(132, "STY", "ZERO_PAGE", 3, 2) @@
    133 :> InstructionInfo(133, "STA", "ZERO_PAGE", 3, 2) @@
    134 :> InstructionInfo(134, "STX", "ZERO_PAGE", 3, 2) @@
    135 :> InstructionInfo(135, "SMB0", "ZERO_PAGE", 5, 2) @@
    136 :> InstructionInfo(136, "DEY", "IMPLICIT", 2, 1) @@
    137 :> InstructionInfo(137, "BIT", "IMMEDIATE", 2, 2) @@
    138 :> InstructionInfo(138, "TXA", "IMPLICIT", 2, 1) @@
    140 :> InstructionInfo(140, "STY", "ABSOLUTE", 4, 3) @@
    141 :> InstructionInfo(141, "STA", "ABSOLUTE", 4, 3) @@
    142 :> InstructionInfo(142, "STX", "ABSOLUTE", 4, 3) @@
    143 :> InstructionInfo(143, "BBS0", "RELATIVE", 5, 3) @@
    144 :> InstructionInfo(144, "BCC", "RELATIVE", 2, 2) @@
    145 :> InstructionInfo(145, "STA", "INDIRECT_Y", 6, 2) @@
    146 :> InstructionInfo(146, "STA", "INDIRECT_ZP", 5, 2) @@
    148 :> InstructionInfo(148, "STY", "ZERO_PAGE_X", 4, 2) @@
    149 :> InstructionInfo(149, "STA", "ZERO_PAGE_X", 4, 2) @@
    150 :> InstructionInfo(150, "STX", "ZERO_PAGE_Y", 4, 2) @@
    151 :> InstructionInfo(151, "SMB1", "ZERO_PAGE", 5, 2) @@
    152 :> InstructionInfo(152, "TYA", "IMPLICIT", 2, 1) @@
    153 :> InstructionInfo(153, "STA", "ABSOLUTE_Y", 5, 3) @@
    154 :> InstructionInfo(154, "TXS", "IMPLICIT", 2, 1) @@
    156 :> InstructionInfo(156, "STZ", "ABSOLUTE", 4, 3) @@
    157 :> InstructionInfo(157, "STA", "ABSOLUTE_X", 5, 3) @@
    158 :> InstructionInfo(158, "STZ", "ABSOLUTE_X", 5, 3) @@
    159 :> InstructionInfo(159, "BBS1", "RELATIVE", 5, 3) @@
    160 :> InstructionInfo(160, "LDY", "IMMEDIATE", 2, 2) @@
    161 :> InstructionInfo(161, "LDA", "INDIRECT_X", 6, 2) @@
    162 :> InstructionInfo(162, "LDX", "IMMEDIATE", 2, 2) @@
    164 :> InstructionInfo(164, "LDY", "ZERO_PAGE", 3, 2) @@
    165 :> InstructionInfo(165, "LDA", "ZERO_PAGE", 3, 2) @@
    166 :> InstructionInfo(166, "LDX", "ZERO_PAGE", 3, 2) @@
    167 :> InstructionInfo(167, "SMB2", "ZERO_PAGE", 5, 2) @@
    168 :> InstructionInfo(168, "TAY", "IMPLICIT", 2, 1) @@
    169 :> InstructionInfo(169, "LDA", "IMMEDIATE", 2, 2) @@
    170 :> InstructionInfo(170, "TAX", "IMPLICIT", 2, 1) @@
    172 :> InstructionInfo(172, "LDY", "ABSOLUTE", 4, 3) @@
    173 :> InstructionInfo(173, "LDA", "ABSOLUTE", 4, 3) @@
    174 :> InstructionInfo(174, "LDX", "ABSOLUTE", 4, 3) @@
    175 :> InstructionInfo(175, "BBS2", "RELATIVE", 5, 3) @@
    176 :> InstructionInfo(176, "BCS", "RELATIVE", 2, 2) @@
    177 :> InstructionInfo(177, "LDA", "INDIRECT_Y", 5, 2) @@
    178 :> InstructionInfo(178, "LDA", "INDIRECT_ZP", 5, 2) @@
    180 :> InstructionInfo(180, "LDY", "ZERO_PAGE_X", 4, 2) @@
    181 :> InstructionInfo(181, "LDA", "ZERO_PAGE_X", 4, 2) @@
    182 :> InstructionInfo(182, "LDX", "ZERO_PAGE_Y", 4, 2) @@
    183 :> InstructionInfo(183, "SMB3", "ZERO_PAGE", 5, 2) @@
    184 :> InstructionInfo(184, "CLV", "IMPLICIT", 2, 1) @@
    185 :> InstructionInfo(185, "LDA", "ABSOLUTE_Y", 4, 3) @@
    186 :> InstructionInfo(186, "TSX", "IMPLICIT", 2, 1) @@
    188 :> InstructionInfo(188, "LDY", "ABSOLUTE_X", 4, 3) @@
    189 :> InstructionInfo(189, "LDA", "ABSOLUTE_X", 4, 3) @@
    190 :> InstructionInfo(190, "LDX", "ABSOLUTE_Y", 4, 3) @@
    191 :> InstructionInfo(191, "BBS3", "RELATIVE", 5, 3) @@
    192 :> InstructionInfo(192, "CPY", "IMMEDIATE", 2, 2) @@
    193 :> InstructionInfo(193, "CMP", "INDIRECT_X", 6, 2) @@
    196 :> InstructionInfo(196, "CPY", "ZERO_PAGE", 3, 2) @@
    197 :> InstructionInfo(197, "CMP", "ZERO_PAGE", 3, 2) @@
    198 :> InstructionInfo(198, "DEC", "ZERO_PAGE", 5, 2) @@
    199 :> InstructionInfo(199, "SMB4", "ZERO_PAGE", 5, 2) @@
    200 :> InstructionInfo(200, "INY", "IMPLICIT", 2, 1) @@
    201 :> InstructionInfo(201, "CMP", "IMMEDIATE", 2, 2) @@
    202 :> InstructionInfo(202, "DEX", "IMPLICIT", 2, 1) @@
    203 :> InstructionInfo(203, "WAI", "IMPLICIT", 3, 1) @@
    204 :> InstructionInfo(204, "CPY", "ABSOLUTE", 4, 3) @@
    205 :> InstructionInfo(205, "CMP", "ABSOLUTE", 4, 3) @@
    206 :> InstructionInfo(206, "DEC", "ABSOLUTE", 6, 3) @@
    207 :> InstructionInfo(207, "BBS4", "RELATIVE", 5, 3) @@
    208 :> InstructionInfo(208, "BNE", "RELATIVE", 2, 2) @@
    209 :> InstructionInfo(209, "CMP", "INDIRECT_Y", 5, 2) @@
    210 :> InstructionInfo(210, "CMP", "INDIRECT_ZP", 5, 2) @@
    213 :> InstructionInfo(213, "CMP", "ZERO_PAGE_X", 4, 2) @@
    214 :> InstructionInfo(214, "DEC", "ZERO_PAGE_X", 6, 2) @@
    215 :> InstructionInfo(215, "SMB5", "ZERO_PAGE", 5, 2) @@
    216 :> InstructionInfo(216, "CLD", "IMPLICIT", 2, 1) @@
    217 :> InstructionInfo(217, "CMP", "ABSOLUTE_Y", 4, 3) @@
    218 :> InstructionInfo(218, "PHX", "IMPLICIT", 3, 1) @@
    219 :> InstructionInfo(219, "STP", "IMPLICIT", 3, 1) @@
    221 :> InstructionInfo(221, "CMP", "ABSOLUTE_X", 4, 3) @@
    222 :> InstructionInfo(222, "DEC", "ABSOLUTE_X", 7, 3) @@
    223 :> InstructionInfo(223, "BBS5", "RELATIVE", 5, 3) @@
    224 :> InstructionInfo(224, "CPX", "IMMEDIATE", 2, 2) @@
    225 :> InstructionInfo(225, "SBC", "INDIRECT_X", 6, 2) @@
    228 :> InstructionInfo(228, "CPX", "ZERO_PAGE", 3, 2) @@
    229 :> InstructionInfo(229, "SBC", "ZERO_PAGE", 3, 2) @@
    230 :> InstructionInfo(230, "INC", "ZERO_PAGE", 5, 2) @@
    231 :> InstructionInfo(231, "SMB6", "ZERO_PAGE", 5, 2) @@
    232 :> InstructionInfo(232, "INX", "IMPLICIT", 2, 1) @@
    233 :> InstructionInfo(233, "SBC", "IMMEDIATE", 2, 2) @@
    234 :> InstructionInfo(234, "NOP", "IMPLICIT", 2, 1) @@
    236 :> InstructionInfo(236, "CPX", "ABSOLUTE", 4, 3) @@
    237 :> InstructionInfo(237, "SBC", "ABSOLUTE", 4, 3) @@
    238 :> InstructionInfo(238, "INC", "ABSOLUTE", 6, 3) @@
    239 :> InstructionInfo(239, "BBS6", "RELATIVE", 5, 3) @@
    240 :> InstructionInfo(240, "BEQ", "RELATIVE", 2, 2) @@
    241 :> InstructionInfo(241, "SBC", "INDIRECT_Y", 5, 2) @@
    242 :> InstructionInfo(242, "SBC", "INDIRECT_ZP", 5, 2) @@
    245 :> InstructionInfo(245, "SBC", "ZERO_PAGE_X", 4, 2) @@
    246 :> InstructionInfo(246, "INC", "ZERO_PAGE_X", 6, 2) @@
    247 :> InstructionInfo(247, "SMB7", "ZERO_PAGE", 5, 2) @@
    248 :> InstructionInfo(248, "SED", "IMPLICIT", 2, 1) @@
    249 :> InstructionInfo(249, "SBC", "ABSOLUTE_Y", 4, 3) @@
    250 :> InstructionInfo(250, "PLX", "IMPLICIT", 4, 1) @@
    253 :> InstructionInfo(253, "SBC", "ABSOLUTE_X", 4, 3) @@
    254 :> InstructionInfo(254, "INC", "ABSOLUTE_X", 7, 3) @@
    255 :> InstructionInfo(255, "BBS7", "RELATIVE", 5, 3)

\* the entry the W65C02S datasheet gives an opcode without an instruction
decode_Mutant(opcode) ==
    LET o == BitAnd(opcode, 255)
    IN IF o \in DOMAIN _instruction_table THEN _instruction_table[o]
       ELSE InstructionInfo(o, "NOP", "IMPLICIT", 1, 1)

\* InstructionDecoder.decode: self._instruction_table.get(opcode & 0xFF)
decode(opcode) ==
    LET o == BitAnd(opcode, 255)
    IN IF o \in DOMAIN _instruction_table THEN _instruction_table[o]
       ELSE NoInstruction

\* AddressingResult(address=address) of a zero-page mode
AddressingResult(address) ==
    [address |-> address, value |-> None, page_crossed |-> FALSE, extra_cycles |-> 0]

\* no instruction entry and no addressing result
NoResult == [address |-> -1]

ExeCall(op, operand, result, error) ==
    [op |-> op, operand |-> operand, result |-> result, error |-> error]

\* CPURegisters() with its defaults
InitExe ==
    /\ cpu_x = 0
    /\ cpu_y = 0
    /\ exe_call = ExeCall("init", -1, NoResult, None)

exeOnly ==
    UNCHANGED <<busVars, dataVars, icVars, tickVars, schedVars, cpuVars, arbVars, orcVars, bpVars, regVars, ptrVars>>

\* the opcodes offered to decode: every byte, and two values above a byte
OpcodeInputs == 0..257

\* InstructionDecoder.decode called by the CPU
Decode(opcode) ==
    /\ exe_call' = ExeCall("decode", opcode, decode(opcode), None)
    /\ UNCHANGED <<cpu_x, cpu_y>>
    /\ exeOnly

\* the values offered to set_x and set_y, the last one out of range
IndexInputs == {0, 1, 128, 255, 256}

\* CPURegisters.set_x
RegistersSetX(value) ==
    /\ IF 0 <= value /\ value <= 255
       THEN /\ cpu_x' = value
            /\ exe_call' = ExeCall("set_x", value, NoResult, None)
       ELSE /\ cpu_x' = cpu_x
            /\ exe_call' = ExeCall("set_x", value, NoResult, "ValueError")
    /\ UNCHANGED cpu_y
    /\ exeOnly

\* CPURegisters.set_y
RegistersSetY(value) ==
    /\ IF 0 <= value /\ value <= 255
       THEN /\ cpu_y' = value
            /\ exe_call' = ExeCall("set_y", value, NoResult, None)
       ELSE /\ cpu_y' = cpu_y
            /\ exe_call' = ExeCall("set_y", value, NoResult, "ValueError")
    /\ UNCHANGED cpu_x
    /\ exeOnly

\* the operand bytes of the zero-page instructions evaluated
OperandInputs == {0, 1, 127, 128, 254, 255}

\* (operand + index) of a zero-page indexed mode, not wrapped
zero_page_indexed_Mutant(operand, index) == operand + index

\* (operand + self._registers.x) & 0xFF, the same with y
zero_page_indexed(operand, index) == BitAnd(operand + index, 255)

\* AddressingModes.zero_page_x
zero_page_x(operand) == AddressingResult(zero_page_indexed(operand, cpu_x))

\* AddressingModes.zero_page_y
zero_page_y(operand) == AddressingResult(zero_page_indexed(operand, cpu_y))

\* the CPU evaluates the operand of a ZP,X instruction
ZeroPageX(operand) ==
    /\ exe_call' = ExeCall("zero_page_x", operand, zero_page_x(operand), None)
    /\ UNCHANGED <<cpu_x, cpu_y>>
    /\ exeOnly

\* the CPU evaluates the operand of a ZP,Y instruction
ZeroPageY(operand) ==
    /\ exe_call' = ExeCall("zero_page_y", operand, zero_page_y(operand), None)
    /\ UNCHANGED <<cpu_x, cpu_y>>
    /\ exeOnly

(***************************************************************************)
(* Bus mastership of the SystemBus (memory/mmu.py): request_mastership and *)
(* release_mastership.                                                     *)
(***************************************************************************)
\* the devices that ask for the bus
MasterDevices == {"dma", "video", "disk"}

\* no device is the master (None)
NoMaster == "None"

ArbCall(op, device, result) == [op |-> op, device |-> device, result |-> result]

\* SystemBus.__init__: _bus_masters = [], _current_master = None
InitArb ==
    /\ sb_bus_masters = <<>>
    /\ sb_current_master = NoMaster
    /\ arb_call = ArbCall("init", NoMaster, FALSE)

arbOnly ==
    UNCHANGED <<busVars, dataVars, icVars, tickVars, schedVars, cpuVars, exeVars, orcVars, bpVars, regVars, ptrVars>>

\* device in self._bus_masters
InBusMasters(masters, device) == \E i \in 1..Len(masters) : masters[i] = device

\* whether request_mastership grants the bus: self._current_master is None
MastershipFree_Mutant(master) == TRUE
MastershipFree(master) == master = NoMaster

\* SystemBus.request_mastership
RequestMastership(device) ==
    /\ IF MastershipFree(sb_current_master)
       THEN /\ sb_current_master' = device
            /\ sb_bus_masters' = IF InBusMasters(sb_bus_masters, device)
                                 THEN sb_bus_masters
                                 ELSE Append(sb_bus_masters, device)
            /\ arb_call' = ArbCall("request_mastership", device, TRUE)
       ELSE /\ UNCHANGED <<sb_current_master, sb_bus_masters>>
            /\ arb_call' = ArbCall("request_mastership", device, FALSE)
    /\ arbOnly

\* SystemBus.release_mastership
ReleaseMastership(device) ==
    /\ sb_current_master' = IF sb_current_master = device THEN NoMaster
                            ELSE sb_current_master
    /\ arb_call' = ArbCall("release_mastership", device, FALSE)
    /\ UNCHANGED sb_bus_masters
    /\ arbOnly

(***************************************************************************)
(* Writes of the status register: CPURegisters.set_p and the flag byte of  *)
(* ProcessorFlags (cpu/flags.py).                                          *)
(***************************************************************************)
\* ProcessorFlags.FLAG_U
FLAG_U == 32

\* the bytes offered as a new status
StatusInputs == {0, 223, 255}

\* CPURegisters.set_p
RegistersSetP(value) ==
    /\ CpuIdle
    /\ IF 0 <= value /\ value <= 255
       THEN /\ cpu_p' = value
            /\ ih_call' = HandlerCall("set_p", -1, None, "none", FALSE)
       ELSE /\ cpu_p' = cpu_p
            /\ ih_call' = HandlerCall("set_p", -1, "ValueError", "set_p", FALSE)
    /\ mem_log' = <<>>
    /\ UNCHANGED <<cpu_pc, cpu_s, cpu_mem, ih_sequence, ih_context, ih_history,
                   cpu_cycle>>
    /\ cpuOnly

\* ProcessorFlags.set_flags_byte: (value | FLAG_U) & 0xFF
set_flags_byte(value) == BitAnd(WithFlag(value, FLAG_U), 255)

\* ProcessorFlags.set_flags_byte, also as pop_flags and set_state call it
FlagsSetFlagsByte(op, value) ==
    /\ CpuIdle
    /\ cpu_p' = set_flags_byte(value)
    /\ ih_call' = HandlerCall(op, -1, None, "none", FALSE)
    /\ mem_log' = <<>>
    /\ UNCHANGED <<cpu_pc, cpu_s, cpu_mem, ih_sequence, ih_context, ih_history,
                   cpu_cycle>>
    /\ cpuOnly

\* the states offered to CPURegisters.set_state with a status to restore
RestoreInputs == {[PC |-> 36864, S |-> 255, P |-> s] : s \in StatusInputs}

(***************************************************************************)
(* SystemOrchestrator, its EmulationLoop and the SystemClock that drives   *)
(* it, with one enabled device registered.                                 *)
(***************************************************************************)
orcOnly ==
    UNCHANGED <<busVars, dataVars, icVars, tickVars, schedVars, cpuVars, exeVars, arbVars, bpVars, regVars, ptrVars>>

ClockMode == {"REALTIME", "STEP", "FAST", "SYNC"}
\* the cycles a breakpoint is set on
BreakpointInputs == {1, 2}
\* the clock is ticked up to this cycle
MaxClockCycle == 3
\* EmulationLoop._current_breakpoint is None
NoBreakpoint == -1

OrcCall(op, result) == [op |-> op, result |-> result]

\* SystemOrchestrator.__init__ without a clock
InitOrc ==
    /\ orc_status = "UNINITIALIZED"
    /\ loop_running = FALSE
    /\ loop_paused = FALSE
    /\ loop_step_mode = FALSE
    /\ loop_breakpoints = {}
    /\ loop_current_breakpoint = NoBreakpoint
    /\ clk_mode = None
    /\ clk_current_cycle = 0
    /\ clk_running = FALSE
    /\ clk_paused = FALSE
    /\ clk_step_event = FALSE
    /\ dev_ticks = <<>>
    /\ orc_call = OrcCall("init", None)

\* SystemOrchestrator.set_system_clock with a new SystemClock of the mode
SetSystemClock(mode) ==
    /\ clk_mode = None
    /\ clk_mode' = mode
    /\ orc_call' = OrcCall("set_system_clock", None)
    /\ UNCHANGED <<orc_status, loop_running, loop_paused, loop_step_mode,
                   loop_breakpoints, loop_current_breakpoint, clk_current_cycle,
                   clk_running, clk_paused, clk_step_event, dev_ticks>>
    /\ orcOnly

\* SystemOrchestrator.start: initialize_system unless READY (its
\* SystemClock.start returns at once when the clock runs), then
\* EmulationLoop.start
OrcStart ==
    /\ clk_mode # None
    /\ orc_status' = "RUNNING"
    /\ clk_running' = TRUE
    /\ clk_paused' = IF orc_status # "READY" /\ ~clk_running THEN FALSE ELSE clk_paused
    /\ loop_running' = TRUE
    /\ loop_paused' = FALSE
    /\ orc_call' = OrcCall("start", "True")
    /\ UNCHANGED <<loop_step_mode, loop_breakpoints, loop_current_breakpoint, clk_mode,
                   clk_current_cycle, clk_step_event, dev_ticks>>
    /\ orcOnly

\* SystemOrchestrator.stop: SystemController.shutdown_system
OrcStop ==
    /\ clk_mode # None
    /\ orc_status' = "STOPPED"
    /\ loop_running' = FALSE
    /\ loop_paused' = FALSE
    /\ clk_running' = FALSE
    /\ clk_paused' = FALSE
    /\ clk_step_event' = TRUE
    /\ orc_call' = OrcCall("stop", None)
    /\ UNCHANGED <<loop_step_mode, loop_breakpoints, loop_current_breakpoint, clk_mode,
                   clk_current_cycle, dev_ticks>>
    /\ orcOnly

\* SystemOrchestrator.pause
OrcPause ==
    /\ clk_mode # None
    /\ IF orc_status = "RUNNING"
       THEN /\ orc_status' = "PAUSED"
            /\ loop_paused' = TRUE
            /\ clk_paused' = TRUE
       ELSE UNCHANGED <<orc_status, loop_paused, clk_paused>>
    /\ orc_call' = OrcCall("pause", None)
    /\ UNCHANGED <<loop_running, loop_step_mode, loop_breakpoints,
                   loop_current_breakpoint, clk_mode, clk_current_cycle, clk_running,
                   clk_step_event, dev_ticks>>
    /\ orcOnly

\* resume acts: self._status == SystemStatus.PAUSED
ResumeActs(status) == status = "PAUSED"

\* SystemOrchestrator.resume
OrcResume ==
    /\ clk_mode # None
    /\ IF ResumeActs(orc_status)
       THEN /\ orc_status' = "RUNNING"
            /\ loop_paused' = FALSE
            /\ clk_paused' = FALSE
            /\ clk_step_event' = TRUE
       ELSE UNCHANGED <<orc_status, loop_paused, clk_paused, clk_step_event>>
    /\ orc_call' = OrcCall("resume", None)
    /\ UNCHANGED <<loop_running, loop_step_mode, loop_breakpoints,
                   loop_current_breakpoint, clk_mode, clk_current_cycle, clk_running,
                   dev_ticks>>
    /\ orcOnly

\* SystemOrchestrator.step: EmulationLoop.step when RUNNING or PAUSED
OrcStep ==
    /\ clk_mode # None
    /\ IF orc_status \in {"RUNNING", "PAUSED"}
       THEN /\ loop_step_mode' = TRUE
            /\ loop_paused' = FALSE
            /\ orc_call' = OrcCall("step", "True")
       ELSE /\ UNCHANGED <<loop_step_mode, loop_paused>>
            /\ orc_call' = OrcCall("step", "False")
    /\ UNCHANGED <<orc_status, loop_running, loop_breakpoints, loop_current_breakpoint,
                   clk_mode, clk_current_cycle, clk_running, clk_paused, clk_step_event,
                   dev_ticks>>
    /\ orcOnly

\* EmulationLoop.add_breakpoint
LoopAddBreakpoint(cycle) ==
    /\ clk_mode # None
    /\ loop_breakpoints' = loop_breakpoints \cup {cycle}
    /\ orc_call' = OrcCall("add_breakpoint", None)
    /\ UNCHANGED <<orc_status, loop_running, loop_paused, loop_step_mode,
                   loop_current_breakpoint, clk_mode, clk_current_cycle, clk_running,
                   clk_paused, clk_step_event, dev_ticks>>
    /\ orcOnly

\* EmulationLoop.on_tick; _execute_devices ticks the device with the cycle
on_tick(cycle) ==
    IF ~loop_running \/ loop_paused
    THEN UNCHANGED <<loop_paused, loop_step_mode, loop_current_breakpoint, dev_ticks>>
    ELSE IF cycle \in loop_breakpoints
    THEN /\ loop_current_breakpoint' = cycle
         /\ loop_paused' = TRUE
         /\ UNCHANGED <<loop_step_mode, dev_ticks>>
    ELSE /\ dev_ticks' = Append(dev_ticks, cycle)
         /\ loop_step_mode' = FALSE
         /\ loop_paused' = (loop_step_mode \/ loop_paused)
         /\ UNCHANGED loop_current_breakpoint

\* SystemClock.tick waits: self._paused and self.config.mode == ClockMode.STEP
TickWaits(paused, mode) == paused /\ mode = "STEP"

\* SystemClock.tick and _execute_tick; in STEP mode a paused clock waits for
\* _step_event and clears it
ClockTick ==
    /\ clk_mode # None
    /\ clk_current_cycle < MaxClockCycle
    /\ IF ~clk_running
       THEN /\ orc_call' = OrcCall("tick", "False")
            /\ UNCHANGED <<loop_paused, loop_step_mode, loop_current_breakpoint,
                           dev_ticks, clk_current_cycle, clk_step_event>>
       ELSE /\ TickWaits(clk_paused, clk_mode) => clk_step_event
            /\ clk_step_event' = IF TickWaits(clk_paused, clk_mode) THEN FALSE
                                 ELSE clk_step_event
            /\ on_tick(clk_current_cycle)
            /\ clk_current_cycle' = clk_current_cycle + 1
            /\ orc_call' = OrcCall("tick", "True")
    /\ UNCHANGED <<orc_status, loop_running, loop_breakpoints, clk_mode, clk_running,
                   clk_paused>>
    /\ orcOnly

(***************************************************************************)
(* BreakpointManager and its address breakpoints.                          *)
(***************************************************************************)
bpOnly ==
    UNCHANGED <<busVars, dataVars, icVars, tickVars, schedVars, cpuVars, exeVars, arbVars, orcVars, regVars, ptrVars>>

\* the addresses breakpoints are set on and execution reaches
BpAddressInputs == {4096, 8192}
BpTypeInputs == {"ADDRESS", "TEMPORARY"}
IgnoreCountInputs == {0, 1}
\* ids are given out up to this one
MaxBreakpointId == 2
\* check_breakpoint_hit returns None
NoHit == 0
\* execution reaches addresses until a breakpoint was hit this often
MaxHitCount == 2

BmCall(op, address, result) == [op |-> op, address |-> address, result |-> result]

\* BreakpointManager.__init__
InitBp ==
    /\ bm_breakpoints = <<>>
    /\ bm_address_map = [a \in BpAddressInputs |-> {}]
    /\ bm_next_id = 1
    /\ bm_call = BmCall("init", -1, NoHit)

\* BreakpointManager.add_breakpoint
AddBreakpoint(address, breakpoint_type, ignore_count) ==
    /\ bm_next_id <= MaxBreakpointId
    /\ bm_next_id' = bm_next_id + 1
    /\ bm_breakpoints' =
           bm_breakpoints @@
           (bm_next_id :> [id |-> bm_next_id, address |-> address,
                           type |-> breakpoint_type, state |-> "ENABLED",
                           hit_count |-> 0, ignore_count |-> ignore_count])
    /\ bm_address_map' = [bm_address_map EXCEPT ![address] = @ \cup {bm_next_id}]
    /\ bm_call' = BmCall("add_breakpoint", address, bm_next_id)
    /\ bpOnly

\* the breakpoints and the address map without breakpoint_id
remove_breakpoint(breakpoints, address_map, breakpoint_id) ==
    [breakpoints |-> [i \in DOMAIN breakpoints \ {breakpoint_id} |-> breakpoints[i]],
     address_map |-> [address_map EXCEPT ![breakpoints[breakpoint_id].address] =
                                             @ \ {breakpoint_id}]]

\* BreakpointManager.remove_breakpoint
RemoveBreakpoint(breakpoint_id) ==
    /\ IF breakpoint_id \in DOMAIN bm_breakpoints
       THEN LET r == remove_breakpoint(bm_breakpoints, bm_address_map, breakpoint_id)
            IN /\ bm_breakpoints' = r.breakpoints
               /\ bm_address_map' = r.address_map
       ELSE UNCHANGED <<bm_breakpoints, bm_address_map>>
    /\ bm_call' = BmCall("remove_breakpoint", -1, breakpoint_id)
    /\ UNCHANGED bm_next_id
    /\ bpOnly

\* the breakpoints after enable_breakpoint or disable_breakpoint set the state
WithState(breakpoints, breakpoint_id, state) ==
    IF breakpoint_id \in DOMAIN breakpoints
    THEN [breakpoints EXCEPT ![breakpoint_id].state = state]
    ELSE breakpoints

\* BreakpointManager.enable_breakpoint
EnableBreakpoint(breakpoint_id) ==
    /\ bm_breakpoints' = WithState(bm_breakpoints, breakpoint_id, "ENABLED")
    /\ bm_call' = BmCall("enable_breakpoint", -1, breakpoint_id)
    /\ UNCHANGED <<bm_address_map, bm_next_id>>
    /\ bpOnly

\* BreakpointManager.disable_breakpoint
DisableBreakpoint(breakpoint_id) ==
    /\ bm_breakpoints' = WithState(bm_breakpoints, breakpoint_id, "DISABLED")
    /\ bm_call' = BmCall("disable_breakpoint", -1, breakpoint_id)
    /\ UNCHANGED <<bm_address_map, bm_next_id>>
    /\ bpOnly

\* the state Breakpoint.should_trigger requires: BreakpointState.ENABLED
TriggerState(state) == state = "ENABLED"

\* Breakpoint.should_trigger: the value returned
should_trigger(bp, current_address) ==
    /\ TriggerState(bp.state)
    /\ current_address = bp.address
    /\ bp.ignore_count = 0

\* Breakpoint.should_trigger: the breakpoint after the call
AfterShouldTrigger(bp, current_address) ==
    IF TriggerState(bp.state) /\ current_address = bp.address /\ bp.ignore_count > 0
    THEN [bp EXCEPT !.ignore_count = @ - 1]
    ELSE bp

\* Breakpoint.on_hit
on_hit(bp) == [bp EXCEPT !.hit_count = @ + 1, !.state = "HIT"]

\* the loop of check_breakpoint_hit over the ids at the address, which a set
\* of small integers yields in increasing order: the breakpoints afterwards
\* and the id of the one hit
RECURSIVE CheckHitFrom(_, _, _)
CheckHitFrom(breakpoints, ids, address) ==
    IF ids = {} THEN [breakpoints |-> breakpoints, hit |-> NoHit]
    ELSE LET id == CHOOSE i \in ids : \A j \in ids : i <= j
             rest == ids \ {id}
         IN IF id \notin DOMAIN breakpoints
            THEN CheckHitFrom(breakpoints, rest, address)
            ELSE IF should_trigger(breakpoints[id], address)
            THEN [breakpoints |-> [breakpoints EXCEPT ![id] = on_hit(@)], hit |-> id]
            ELSE CheckHitFrom([breakpoints EXCEPT
                                   ![id] = AfterShouldTrigger(@, address)],
                              rest, address)

\* BreakpointManager.check_breakpoint_hit
CheckBreakpointHit(address) ==
    LET r == CheckHitFrom(bm_breakpoints, bm_address_map[address], address)
    IN /\ \A id \in DOMAIN bm_breakpoints : bm_breakpoints[id].hit_count < MaxHitCount
       /\ IF r.hit # NoHit /\ r.breakpoints[r.hit].type = "TEMPORARY"
          THEN LET d == remove_breakpoint(r.breakpoints, bm_address_map, r.hit)
               IN /\ bm_breakpoints' = d.breakpoints
                  /\ bm_address_map' = d.address_map
          ELSE /\ bm_breakpoints' = r.breakpoints
               /\ UNCHANGED bm_address_map
       /\ bm_call' = BmCall("check_breakpoint_hit", address, r.hit)
       /\ UNCHANGED bm_next_id
       /\ bpOnly

(***************************************************************************)
(* ComponentRegistry: registration, dependencies and initialization order. *)
(***************************************************************************)
regOnly ==
    UNCHANGED <<busVars, dataVars, icVars, tickVars, schedVars, cpuVars, exeVars, arbVars, orcVars, bpVars, ptrVars>>

ComponentIds == {"a", "b", "c"}
ComponentTypes == {"device", "service"}
\* the dependency lists offered to register_component: none, one, two, one
\* named twice, and one that is never registered
DependencyInputs == {<<>>, <<"a">>, <<"b">>, <<"a", "b">>, <<"a", "a">>, <<"x">>}

CrCall(op, component_id, error) ==
    [op |-> op, component_id |-> component_id, error |-> error]

\* ComponentRegistry.__init__
InitReg ==
    /\ cr_components = <<>>
    /\ cr_type_registry = [t \in ComponentTypes |-> <<>>]
    /\ cr_dependency_graph = <<>>
    /\ cr_initialization_order = <<>>
    /\ cr_call = CrCall("init", None, None)

\* component_id in self._components
IsRegistered(components, component_id) ==
    \E i \in 1..Len(components) : components[i].component_id = component_id

\* self._components[component_id]
ComponentInfo(components, component_id) ==
    components[CHOOSE i \in 1..Len(components) : components[i].component_id = component_id]

InSeq(s, x) == \E i \in 1..Len(s) : s[i] = x

\* list.remove and del of a dict entry: the sequence without its first x
RemoveFrom(s, x) ==
    IF ~InSeq(s, x) THEN s
    ELSE LET k == CHOOSE i \in 1..Len(s) : s[i] = x /\ \A j \in 1..(i - 1) : s[j] # x
         IN SubSeq(s, 1, k - 1) \o SubSeq(s, k + 1, Len(s))

\* the number of entries of dependencies that are registered, each counted
\* as often as it is listed
RECURSIVE CountIn(_, _)
CountIn(dependencies, components) ==
    IF dependencies = <<>> THEN 0
    ELSE (IF IsRegistered(components, Head(dependencies)) THEN 1 ELSE 0)
         + CountIn(Tail(dependencies), components)

\* the inner loop of Kahn's algorithm over the dependency graph from entry
\* i on: a component that lists current has its in-degree lowered by one
RECURSIVE LowerInDegree(_, _, _, _, _)
LowerInDegree(graph, i, current, queue, in_degree) ==
    IF i > Len(graph) THEN [queue |-> queue, in_degree |-> in_degree]
    ELSE LET c == graph[i].component_id
         IN IF InSeq(graph[i].dependencies, current)
            THEN LowerInDegree(graph, i + 1, current,
                               IF in_degree[c] - 1 = 0 THEN Append(queue, c) ELSE queue,
                               [in_degree EXCEPT ![c] = @ - 1])
            ELSE LowerInDegree(graph, i + 1, current, queue, in_degree)

\* the while loop of Kahn's algorithm
RECURSIVE KahnLoop(_, _, _, _)
KahnLoop(graph, queue, result, in_degree) ==
    IF queue = <<>> THEN result
    ELSE LET current == Head(queue)
             r == LowerInDegree(graph, 1, current, Tail(queue), in_degree)
         IN KahnLoop(graph, r.queue, Append(result, current), r.in_degree)

\* ComponentRegistry._update_initialization_order: the order computed and
\* whether ValueError is raised instead of storing it
_update_initialization_order(components, graph) ==
    LET ids == {components[i].component_id : i \in 1..Len(components)}
        in_degree == [c \in ids |->
                         CountIn(ComponentInfo(graph, c).dependencies, components)]
        queue == SelectSeq([i \in 1..Len(components) |-> components[i].component_id],
                           LAMBDA c : in_degree[c] = 0)
        result == KahnLoop(graph, queue, <<>>, in_degree)
    IN [result |-> result, raised |-> Len(result) # Len(components)]

\* ComponentRegistry._update_dependency_graph: the components with
\* component_id among the dependents of its dependencies
RECURSIVE AddDependents(_, _, _)
AddDependents(components, component_id, dependencies) ==
    IF dependencies = <<>> THEN components
    ELSE LET d == Head(dependencies)
             next == [i \in 1..Len(components) |->
                         IF components[i].component_id = d
                            /\ ~InSeq(components[i].dependents, component_id)
                         THEN [components[i] EXCEPT
                                   !.dependents = Append(@, component_id)]
                         ELSE components[i]]
         IN AddDependents(next, component_id, Tail(dependencies))

\* ComponentRegistry.register_component
RegisterComponent(component_id, component_type, dependencies) ==
    /\ IF IsRegistered(cr_components, component_id)
       THEN /\ cr_call' = CrCall("register_component", component_id, "ValueError")
            /\ UNCHANGED <<cr_components, cr_type_registry, cr_dependency_graph,
                           cr_initialization_order>>
       ELSE LET valid_dependencies ==
                    SelectSeq(dependencies, LAMBDA d : IsRegistered(cr_components, d))
                info == [component_id |-> component_id,
                         component_type |-> component_type,
                         dependencies |-> valid_dependencies,
                         dependents |-> <<>>]
                components == AddDependents(Append(cr_components, info), component_id,
                                            valid_dependencies)
                graph == Append(cr_dependency_graph,
                                [component_id |-> component_id,
                                 dependencies |-> valid_dependencies])
                order == _update_initialization_order(components, graph)
            IN /\ cr_components' = components
               /\ cr_type_registry' =
                      [cr_type_registry EXCEPT ![component_type] = Append(@, component_id)]
               /\ cr_dependency_graph' = graph
               /\ cr_initialization_order' =
                      IF order.raised THEN cr_initialization_order ELSE order.result
               /\ cr_call' = CrCall("register_component", component_id,
                                    IF order.raised THEN "ValueError" ELSE None)
    /\ regOnly

\* ComponentRegistry._remove_from_dependency_graph: the components without
\* component_id among the dependents of its dependencies
RemoveDependents(components, component_id, dependencies) ==
    [i \in 1..Len(components) |->
        IF InSeq(dependencies, components[i].component_id)
        THEN [components[i] EXCEPT !.dependents = RemoveFrom(@, component_id)]
        ELSE components[i]]

\* ComponentRegistry.unregister_component
UnregisterComponent(component_id) ==
    /\ IF ~IsRegistered(cr_components, component_id)
       THEN /\ cr_call' = CrCall("unregister_component", component_id, None)
            /\ UNCHANGED <<cr_components, cr_type_registry, cr_dependency_graph,
                           cr_initialization_order>>
       ELSE LET info == ComponentInfo(cr_components, component_id)
            IN IF info.dependents # <<>>
               THEN /\ cr_call' = CrCall("unregister_component", component_id,
                                         "ValueError")
                    /\ UNCHANGED <<cr_components, cr_type_registry,
                                   cr_dependency_graph, cr_initialization_order>>
               ELSE LET dependencies ==
                            ComponentInfo(cr_dependency_graph, component_id).dependencies
                        components ==
                            SelectSeq(RemoveDependents(cr_components, component_id,
                                                       dependencies),
                                      LAMBDA c : c.component_id # component_id)
                        graph == SelectSeq(cr_dependency_graph,
                                           LAMBDA g : g.component_id # component_id)
                        order == _update_initialization_order(components, graph)
                    IN /\ cr_components' = components
                       /\ cr_type_registry' =
                              [cr_type_registry EXCEPT
                                   ![info.component_type] = RemoveFrom(@, component_id)]
                       /\ cr_dependency_graph' = graph
                       /\ cr_initialization_order' =
                              IF order.raised THEN cr_initialization_order
                              ELSE order.result
                       /\ cr_call' = CrCall("unregister_component", component_id,
                                            IF order.raised THEN "ValueError" ELSE None)
    /\ regOnly

(***************************************************************************)
(* The zero-page pointer modes of AddressingModes and the memory they read. *)
(***************************************************************************)
ptrOnly ==
    UNCHANGED <<busVars, dataVars, icVars, tickVars, schedVars, cpuVars, arbVars, orcVars, bpVars, regVars>>

\* the addresses written before the pointer modes are used: the ends of the
\* zero page and the start of the stack page
PointerAddressInputs == {0, 255, 256}
PointerByteInputs == {18, 128}
\* the operands offered to the pointer modes
PointerOperandInputs == {0, 254, 255}

\* a memory of zeros
InitPtr ==
    /\ adr_memory = [a \in 0..256 |-> 0]
    /\ adr_reads = <<>>

\* MemoryInterface.write
MemoryWrite(address, value) ==
    /\ adr_memory' = [adr_memory EXCEPT ![address] = value]
    /\ adr_reads' = <<>>
    /\ exe_call' = ExeCall("write", address, NoResult, None)
    /\ UNCHANGED <<cpu_x, cpu_y>>
    /\ ptrOnly

\* the address of the high byte of the word at address
HighByteAddress(address) == BitAnd(address + 1, 65535)

\* AddressingModes._read_word: the word and the addresses read
_read_word(memory, address) ==
    LET low_at == BitAnd(address, 65535)
        high_at == HighByteAddress(address)
    IN [value |-> memory[low_at] + 256 * memory[high_at],
        reads |-> <<low_at, high_at>>]

\* AddressingModes._check_page_cross
_check_page_cross(base_address, offset) ==
    BitAnd(base_address \div 256, 255) # BitAnd((base_address + offset) \div 256, 255)

\* AddressingModes.indirect_x: the word read at (operand + x) & 0xFF
indirect_x(operand) == _read_word(adr_memory, BitAnd(operand + cpu_x, 255))

\* AddressingModes.indirect_zp and the pointer of indirect_y: the word read
\* at operand & 0xFF
indirect_zp(operand) == _read_word(adr_memory, BitAnd(operand, 255))

\* AddressingModes.indirect_y: the result
indirect_y(operand) ==
    LET base_address == indirect_zp(operand).value
        page_crossed == _check_page_cross(base_address, cpu_y)
    IN [AddressingResult(BitAnd(base_address + cpu_y, 65535)) EXCEPT
            !.page_crossed = page_crossed,
            !.extra_cycles = IF page_crossed THEN 1 ELSE 0]

\* the CPU evaluates the operand of a (ZP,X) instruction
IndirectX(operand) ==
    /\ exe_call' = ExeCall("indirect_x", operand,
                           AddressingResult(indirect_x(operand).value), None)
    /\ adr_reads' = indirect_x(operand).reads
    /\ UNCHANGED <<cpu_x, cpu_y, adr_memory>>
    /\ ptrOnly

\* the CPU evaluates the operand of a (ZP),Y instruction
IndirectY(operand) ==
    /\ exe_call' = ExeCall("indirect_y", operand, indirect_y(operand), None)
    /\ adr_reads' = indirect_zp(operand).reads
    /\ UNCHANGED <<cpu_x, cpu_y, adr_memory>>
    /\ ptrOnly

\* the CPU evaluates the operand of a (ZP) instruction
IndirectZp(operand) ==
    /\ exe_call' = ExeCall("indirect_zp", operand,
                           AddressingResult(indirect_zp(operand).value), None)
    /\ adr_reads' = indirect_zp(operand).reads
    /\ UNCHANGED <<cpu_x, cpu_y, adr_memory>>
    /\ ptrOnly

(***************************************************************************)
(* Specifications.                                                         *)
(***************************************************************************)

\* every object after construction
Init == InitBus /\ InitPtr /\ InitReg /\ InitBp /\ InitOrc /\ InitArb /\ InitIC /\ InitExe /\ InitTickAt(FALSE) /\ InitSchedWith("PRIORITY_BASED")
        /\ InitCpu

InitTick == InitBus /\ InitPtr /\ InitReg /\ InitBp /\ InitOrc /\ InitArb /\ InitIC /\ InitExe /\ (\E warm \in BOOLEAN : InitTickAt(warm))
            /\ InitSchedWith("PRIORITY_BASED") /\ InitCpu

InitSched == InitBus /\ InitPtr /\ InitReg /\ InitBp /\ InitOrc /\ InitArb /\ InitIC /\ InitExe /\ InitTickAt(FALSE)
             /\ (\E policy \in SchedPolicies : InitSchedWith(policy)) /\ InitCpu

\* every object after construction, the CPU registers constructed with
\* values of the input sets
InitEntry ==
    /\ InitBus /\ InitPtr /\ InitReg /\ InitBp /\ InitOrc /\ InitArb /\ InitIC /\ InitExe /\ InitTickAt(FALSE) /\ InitSchedWith("PRIORITY_BASED")
    /\ \E pc \in PcInputs, s \in SInputs, p \in PInputs : InitCpuAt(pc, s, p)

\* map and unmap operations of the DeviceMapper
NextDm ==
    \/ \E d \in BusDevices, s \in AddrInputs, e \in AddrInputs, n \in MapNames,
          ro \in BOOLEAN : DmMapDevice(d, s, e, n, ro)
    \/ \E s \in AddrInputs, e \in AddrInputs : DmUnmapDevice(s, e)
    \/ \E n \in MapNames : DmUnmapDeviceByName(n)

\* map and unmap operations of both bus implementations
NextMap ==
    \/ NextDm
    \/ \E d \in BusDevices, s \in AddrInputs, e \in AddrInputs, n \in SbMapNames :
          SbMapDevice(d, s, e, n)
    \/ \E s \in AddrInputs, e \in AddrInputs : SbUnmapDevice(s, e)

\* the DeviceMapper with the MemoryController that routes accesses through
\* it; the routing does not look at the byte written
NextBus ==
    \/ NextDm
    \/ \E a \in AddrInputs : McRead(a)
    \/ \E a \in AddrInputs : McWrite(a, 0)

\* the IRQ line only: assert_irq, deassert_irq and acknowledge
NextIrq ==
    \/ \E src \in IrqSourceInputs : AssertIrq(src)
    \/ \E src \in IrqSourceInputs : DeassertIrq(src)
    \/ \E en \in BOOLEAN : Acknowledge(en)

NextIC ==
    \/ NextIrq
    \/ AssertNmi
    \/ DeassertNmi
    \/ AssertReset
    \/ DeassertReset
    \/ CompleteInterruptService
    \/ ForceClearAllInterrupts

\* the tick engine
NextTick ==
    \/ \E d \in TickDevices : TeRegisterTickable(d)
    \/ \E d \in TickDevices : TeUnregisterTickable(d)
    \/ \E d \in TickDevices, b \in BOOLEAN : TeSetEnabled(d, b)
    \/ TeStart
    \/ TeStop
    \/ TePause
    \/ TeResume
    \/ TeReset
    \/ \E raising \in 0..MaxCallsPerCycle : TeStep(raising)
    \/ \E raising \in 0..MaxCallsPerCycle : TeTick(raising)

\* the device scheduler
NextSched ==
    \/ \E d \in SchedDevices : DsRegisterDevice(d)
    \/ \E d \in SchedDevices : DsUnregisterDevice(d)
    \/ \E d \in SchedDevices, p \in SchedPriorityInputs : DsSetDevicePriority(d, p)
    \/ \E d \in SchedDevices : DsBlockDevice(d, MaxSchedCycle)
    \/ \E d \in SchedDevices : DsUnblockDevice(d)
    \/ \E c \in 0..MaxSchedCycle, raising \in RaisingInputs : DsExecuteCycle(c, raising)

\* the interrupt handler with its controller and the CPU registers
NextEntry ==
    \/ AssertIrq("timer")
    \/ AssertNmi
    \/ DeassertNmi
    \/ AssertReset
    \/ \E fail \in FailInputs : CheckAndHandleInterrupts(fail)
    \/ \E state \in StateInputs : RegistersSetState(state)

\* the stack: push and pull instructions, register reset and interrupt entry
NextStack ==
    \/ \E value \in PushInputs : StackPush(value)
    \/ StackPull
    \/ RegistersReset
    \/ AssertNmi
    \/ CheckAndHandleInterrupts("none")

\* reads and writes through both bus implementations, with one mapping
\* that comes and goes and one read-only region of the address space
NextData ==
    \/ \E ro \in BOOLEAN : DmMapDevice("dev", 1, 1, "m1", ro)
    \/ DmUnmapDevice(1, 1)
    \/ SbMapDevice("dev", 1, 1, "m1")
    \/ SbUnmapDevice(1, 1)
    \/ AsSetReadOnlyRegion(0, 0)
    \/ \E a \in AddrInputs : McRead(a)
    \/ \E a \in AddrInputs, value \in ByteInputs : McWrite(a, value)
    \/ \E a \in AddrInputs : SbRead(a)
    \/ \E a \in AddrInputs, value \in ByteInputs : SbWrite(a, value)

SpecMap == Init /\ [][NextMap]_vars

SpecBus == Init /\ [][NextBus]_vars

SpecIrq == Init /\ [][NextIrq]_vars

SpecIC == Init /\ [][NextIC]_vars

SpecTick == InitTick /\ [][NextTick]_vars

SpecSched == InitSched /\ [][NextSched]_vars

SpecEntry == InitEntry /\ [][NextEntry]_vars

SpecStack == InitEntry /\ [][NextStack]_vars

\* interrupt requests, the interrupt check of every cycle and forced entries
NextForce ==
    \/ AssertIrq("timer")
    \/ AssertNmi
    \/ DeassertNmi
    \/ AssertReset
    \/ CheckAndHandleInterrupts("none")
    \/ \E t \in InterruptType : ForceInterrupt(t)

SpecForce == InitEntry /\ [][NextForce]_vars

\* the orchestrator's control calls and the ticks of its clock
NextOrc ==
    \/ \E mode \in ClockMode : SetSystemClock(mode)
    \/ OrcStart
    \/ OrcStop
    \/ OrcPause
    \/ OrcResume
    \/ OrcStep
    \/ \E cycle \in BreakpointInputs : LoopAddBreakpoint(cycle)
    \/ ClockTick

SpecOrc == Init /\ [][NextOrc]_vars

\* breakpoints set, removed, disabled and enabled while execution reaches
\* the addresses
NextBp ==
    \/ \E address \in BpAddressInputs, t \in BpTypeInputs, n \in IgnoreCountInputs :
           AddBreakpoint(address, t, n)
    \/ \E id \in 1..MaxBreakpointId : RemoveBreakpoint(id)
    \/ \E id \in 1..MaxBreakpointId : EnableBreakpoint(id)
    \/ \E id \in 1..MaxBreakpointId : DisableBreakpoint(id)
    \/ \E address \in BpAddressInputs : CheckBreakpointHit(address)

SpecBp == Init /\ [][NextBp]_vars

\* components registered and unregistered
NextReg ==
    \/ \E id \in ComponentIds, t \in ComponentTypes, deps \in DependencyInputs :
           RegisterComponent(id, t, deps)
    \/ \E id \in ComponentIds : UnregisterComponent(id)

SpecReg == Init /\ [][NextReg]_vars

\* the pointer modes on a memory written at the ends of the zero page
NextPtr ==
    \/ \E a \in PointerAddressInputs, value \in PointerByteInputs : MemoryWrite(a, value)
    \/ \E value \in IndexInputs : RegistersSetX(value)
    \/ \E value \in IndexInputs : RegistersSetY(value)
    \/ \E operand \in PointerOperandInputs : IndirectX(operand)
    \/ \E operand \in PointerOperandInputs : IndirectY(operand)
    \/ \E operand \in PointerOperandInputs : IndirectZp(operand)

SpecPtr == Init /\ [][NextPtr]_vars

SpecData == Init /\ [][NextData]_vars

\* word accesses of the controller, with one mapping that comes and goes
\* and one read-only region of the address space
NextWord ==
    \/ \E ro \in BOOLEAN : DmMapDevice("dev", 1, 1, "m1", ro)
    \/ DmUnmapDevice(1, 1)
    \/ AsSetReadOnlyRegion(0, 0)
    \/ \E a \in AddrInputs : McReadWord(a)
    \/ \E a \in AddrInputs, value \in WordInputs : McWriteWord(a, value)

SpecWord == Init /\ [][NextWord]_vars

\* every object after construction, the CPU with interrupts enabled
InitSys ==
    /\ InitBus /\ InitPtr /\ InitReg /\ InitBp /\ InitOrc /\ InitArb /\ InitIC /\ InitExe /\ InitTickAt(FALSE) /\ InitSchedWith("PRIORITY_BASED")
    /\ InitCpuAt(36864, 255, 48)

\* the engine ticking the CPU and the devices
NextSys ==
    \/ \E d \in TickDevices : SysRegisterTickable(d)
    \/ SysStart
    \/ SysTickBegin
    \/ \E asserting \in BOOLEAN : SysDeviceTick(asserting)
    \/ SysCpuTick
    \/ SysTickEnd

SpecSys == InitSys /\ [][NextSys]_vars

\* the decoder asked for every opcode
NextDecode == \E opcode \in OpcodeInputs : Decode(opcode)

SpecDecode == Init /\ [][NextDecode]_vars

\* the index registers set and the zero-page indexed modes evaluated
NextZp ==
    \/ \E value \in IndexInputs : RegistersSetX(value)
    \/ \E value \in IndexInputs : RegistersSetY(value)
    \/ \E operand \in OperandInputs : ZeroPageX(operand)
    \/ \E operand \in OperandInputs : ZeroPageY(operand)

SpecZp == Init /\ [][NextZp]_vars

\* every way the status register is written: set_p, the flag byte, a pull,
\* a state restore, a register reset and an interrupt entry
NextFlags ==
    \/ \E value \in StatusInputs \cup {256} : RegistersSetP(value)
    \/ \E op \in {"set_flags_byte", "pop_flags", "set_state"}, value \in StatusInputs :
           FlagsSetFlagsByte(op, value)
    \/ \E state \in RestoreInputs : RegistersSetState(state)
    \/ RegistersReset
    \/ AssertNmi
    \/ CheckAndHandleInterrupts("none")

SpecFlags == InitEntry /\ [][NextFlags]_vars

\* the devices asking for the bus and giving it back
NextArb ==
    \/ \E device \in MasterDevices : RequestMastership(device)
    \/ \E device \in MasterDevices : ReleaseMastership(device)

SpecArb == Init /\ [][NextArb]_vars


(***************************************************************************)
(* Properties.                                                             *)
(***************************************************************************)

\* no two mappings of the list cover a common address
NoOverlap(maps) ==
    \A i, j \in 1..Len(maps) :
        i # j => ~\E a \in 0..AddrMax :
                     contains_address(maps[i], a) /\ contains_address(maps[j], a)

\* C1: after any sequence of map and unmap operations, accepted or rejected,
\* no two active mappings of a bus cover a common address (DeviceMapper and
\* SystemBus alike).
C1_NoTwoMappingsOverlap == NoOverlap(dm_mappings) /\ NoOverlap(sb_mappings)

\* both buses hold two mappings and the DeviceMapper has just rejected an
\* overlapping map_device
C1_Witness ==
    /\ Len(dm_mappings) = 2
    /\ Len(sb_mappings) = 2
    /\ bus_error = "AddressOverlapError"

\* the active mapping that covers address a, NoMapping if there is none
CurrentMapping(maps, a) ==
    IF \E i \in 1..Len(maps) : contains_address(maps[i], a)
    THEN maps[CHOOSE i \in 1..Len(maps) : contains_address(maps[i], a)]
    ELSE NoMapping

\* C2: after any map/unmap, a read or write of address a is routed to the
\* mapping that currently covers a, or to the unmapped path if none does,
\* never to a mapping that has been removed.
C2_RoutedToCurrentMapping ==
    mc_routed # NoAccess =>
        mc_routed.target = CurrentMapping(dm_mappings, mc_routed.addr)

\* C3: assert_nmi leaves an NMI pending when the NMI line was low at the
\* call; when the line was already high it produces no pending NMI:
\* nmi_pending keeps its value, also after an acknowledge has cleared it;
\* the line is high afterwards, so only a deassert_nmi re-arms the edge.
C3_NmiEdge ==
    [][AssertNmi =>
          /\ ~nmi_previous_state => nmi_pending'
          /\ nmi_previous_state => nmi_pending' = nmi_pending
          /\ nmi_previous_state']_vars

\* an NMI was acknowledged and assert_nmi was called again with the line
\* still high: nothing is pending
C3_Witness ==
    /\ ic_call.op = "assert_nmi"
    /\ servicing_interrupt = "NMI"
    /\ nmi_previous_state
    /\ ~nmi_pending

\* C4: acknowledge returns RESET whenever a RESET is pending, NMI exactly
\* when an NMI but no RESET is pending, IRQ exactly when an IRQ source but
\* neither RESET nor NMI is pending and interrupts are enabled (I clear),
\* and None otherwise; RESET and NMI do not depend on the I flag.
C4_AcknowledgePriority ==
    [][\A en \in BOOLEAN : Acknowledge(en) =>
          LET r == ic_result'.interrupt_type
          IN /\ reset_pending => r = "RESET"
             /\ (~reset_pending /\ nmi_pending) => r = "NMI"
             /\ (~reset_pending /\ ~nmi_pending /\ irq_sources # {} /\ en) => r = "IRQ"
             /\ (~reset_pending /\ ~nmi_pending /\ (irq_sources = {} \/ ~en)) => r = None]_vars

\* acknowledge with I set returned RESET although an NMI and an IRQ are pending
C4_Witness ==
    /\ ic_call.op = "acknowledge"
    /\ ic_call.arg = "False"
    /\ ic_result.interrupt_type = "RESET"
    /\ nmi_pending
    /\ irq_sources # {}

\* C5: an acknowledge clears the request it returns and no other: RESET
\* leaves nmi_pending and the IRQ sources, NMI leaves reset_pending and the
\* IRQ sources, IRQ empties the IRQ sources and leaves reset_pending and
\* nmi_pending; returning None clears nothing; the NMI line is not touched.
C5_AcknowledgeClearsOnlyChosen ==
    [][\A en \in BOOLEAN : Acknowledge(en) =>
          LET r == ic_result'.interrupt_type
          IN /\ r = "RESET" => /\ ~reset_pending'
                               /\ nmi_pending' = nmi_pending
                               /\ irq_sources' = irq_sources
             /\ r = "NMI" => /\ ~nmi_pending'
                             /\ reset_pending' = reset_pending
                             /\ irq_sources' = irq_sources
             /\ r = "IRQ" => /\ irq_sources' = {}
                             /\ reset_pending' = reset_pending
                             /\ nmi_pending' = nmi_pending
             /\ r = None => /\ irq_sources' = irq_sources
                            /\ reset_pending' = reset_pending
                            /\ nmi_pending' = nmi_pending
             /\ nmi_previous_state' = nmi_previous_state]_vars

\* an NMI was acknowledged and the IRQ sources asserted before are still there
C5_Witness ==
    /\ ic_call.op = "acknowledge"
    /\ ic_result.interrupt_type = "NMI"
    /\ ~nmi_pending
    /\ Cardinality(irq_sources) = 2

\* only an IRQ is pending
OnlyIrqPending == ~reset_pending /\ ~nmi_pending /\ irq_sources # {}

\* C6: with only an IRQ pending, acknowledge with I set returns None and
\* leaves the IRQ sources, so the IRQ is still the highest pending request,
\* and acknowledge with I clear returns it.
C6_MaskedIrqStaysPending ==
    [][/\ (Acknowledge(FALSE) /\ OnlyIrqPending) =>
              /\ ic_result' = NoVector
              /\ irq_sources' = irq_sources
              /\ OnlyIrqPending'
       /\ (Acknowledge(TRUE) /\ OnlyIrqPending) =>
              ic_result'.interrupt_type = "IRQ"]_vars

\* acknowledge with I set has just returned None with only IRQs pending
C6_Witness ==
    /\ ic_call.op = "acknowledge"
    /\ ic_call.arg = "False"
    /\ ic_result = NoVector
    /\ OnlyIrqPending

\* C7: under assert_irq, deassert_irq and acknowledge the controller reports
\* a pending interrupt iff the set of asserted IRQ sources is non-empty:
\* asserting a source makes it pending, deasserting leaves it pending iff
\* another source remains, acknowledging the IRQ clears it.
C7_IrqPendingIffSources ==
    /\ [](is_pending <=> irq_sources # {})
    /\ [][/\ \A src \in IrqSources : AssertIrq(src) => is_pending'
          /\ \A src \in IrqSources :
                 DeassertIrq(src) => (is_pending' <=> (irq_sources \ {src}) # {})
          /\ (Acknowledge(TRUE) /\ irq_sources # {}) => ~is_pending']_vars

\* one of three sources was deasserted and the IRQ is still pending
C7_Witness ==
    /\ ic_call.op = "deassert_irq"
    /\ ic_call.arg \in IrqSources
    /\ irq_sources = IrqSources \ {ic_call.arg}
    /\ is_pending

\* the number of tick calls of device d in the log, and those of one phase
CountCalls(log, d) == Cardinality({i \in 1..Len(log) : log[i].device = d})
CountPhaseCalls(log, d, phase) ==
    Cardinality({i \in 1..Len(log) : log[i].device = d /\ log[i].phase = phase})

\* a tick() or step() has just advanced a master cycle and no tick raised
CycleCompleted == te_call \in {"tick", "step"} /\ te_result = "True"

\* device d is due in the cycle: its cycle_interval is 1 or divides
\* cycle + phase_offset
Due(d, cycle) ==
    \/ TickableConfig[d].cycle_interval <= 1
    \/ (cycle + TickableConfig[d].phase_offset) % TickableConfig[d].cycle_interval = 0

IsCpuTick(e) == e.kind = "tick" /\ SchedDeviceType[e.what] = "CPU"
IsPeripheralTick(e) ==
    e.kind = "tick" /\ TaskPhaseOf(SchedDeviceType[e.what]) = "PERIPHERAL_UPDATE"
IsInterruptSampling(e) == e.kind = "phase" /\ e.what = "INTERRUPT_PROCESSING"

\* C10: in every cycle of the device scheduler no peripheral is ticked
\* before a CPU tick, no CPU or peripheral is ticked once the interrupt
\* processing phase has begun, and that phase is entered in every cycle.
C10_CpuPeripheralsInterrupts ==
    /\ \A i, j \in 1..Len(ds_log) :
           i < j => /\ ~(IsPeripheralTick(ds_log[i]) /\ IsCpuTick(ds_log[j]))
                    /\ ~(IsInterruptSampling(ds_log[i])
                         /\ (IsPeripheralTick(ds_log[j]) \/ IsCpuTick(ds_log[j])))
    /\ ds_call = "execute_cycle" => \E i \in 1..Len(ds_log) : IsInterruptSampling(ds_log[i])

\* a cycle in which the CPU ticked, then a peripheral, then interrupts were sampled
C10_Witness ==
    /\ ds_call = "execute_cycle"
    /\ \E i, j, k \in 1..Len(ds_log) :
           /\ i < j /\ j < k
           /\ IsCpuTick(ds_log[i])
           /\ IsPeripheralTick(ds_log[j])
           /\ IsInterruptSampling(ds_log[k])

\* C12: across start, stop, pause, resume, step and tick the master cycle
\* counter changes only by +1, in a tick or step that executes a cycle, and
\* it returns to 0 only through reset.
C12_CounterMonotone ==
    [][\/ te_current_cycle' = te_current_cycle
       \/ /\ te_call' \in {"tick", "step"}
          /\ te_current_cycle' = te_current_cycle + 1
       \/ /\ te_call' = "reset"
          /\ te_current_cycle' = 0]_vars

\* the interrupt check just made has completed an entry sequence of type t
EntryCompleted(t) ==
    /\ ih_call.op = "check_and_handle_interrupts"
    /\ ih_call.completed
    /\ ih_history[Len(ih_history)].interrupt_type = t

\* the context of the entry sequence completed last
LastEntry == ih_history[Len(ih_history)]

\* the writes of the log, in order
Writes(log) == SelectSeq(log, LAMBDA e : e.op = "write")

\* C13: taking an IRQ or NMI with stack pointer S and program counter PC
\* writes PC high to 0x0100|S, PC low to 0x0100|((S-1) mod 256) and the
\* status byte (P in every bit but B) to 0x0100|((S-2) mod 256), in that
\* order and nothing else, and ends with S = (S-3) mod 256, I = 1, D = 0 and
\* PC equal to the little-endian word at the interrupt's vector.
C13_EntryPushesAndJumps ==
    \A t \in {"IRQ", "NMI"} :
        EntryCompleted(t) =>
            LET S == LastEntry.stack_pointer_before
                PC == LastEntry.pc_before
                P == LastEntry.status_before
                w == Writes(mem_log)
            IN /\ Len(w) = 3
               /\ w[1].address = 256 + S /\ w[1].value = PC \div 256
               /\ w[2].address = 256 + ((S - 1) % 256) /\ w[2].value = PC % 256
               /\ w[3].address = 256 + ((S - 2) % 256)
               /\ WithFlag(w[3].value, FLAG_B) = WithFlag(P, FLAG_B)
               /\ \A i \in 1..3 : cpu_mem[w[i].address] = w[i].value
               /\ cpu_s = (S - 3) % 256
               /\ FlagSet(cpu_p, FLAG_I)
               /\ ~FlagSet(cpu_p, FLAG_D)
               /\ cpu_pc = Word16(cpu_mem, INTERRUPT_VECTORS[t])

\* an IRQ taken with S = 0xFF, PC = 0x9000 and D set has ended with S = 0xFC,
\* 0x90 at 0x01FF, 0x00 at 0x01FE and PC = 0xE056
C13_Witness ==
    /\ EntryCompleted("IRQ")
    /\ LastEntry.stack_pointer_before = 255
    /\ LastEntry.pc_before = 36864
    /\ FlagSet(LastEntry.status_before, FLAG_D)
    /\ cpu_s = 252
    /\ cpu_mem[511] = 144
    /\ cpu_mem[510] = 0
    /\ cpu_pc = 57430

\* C14: the status byte pushed on the stack during entry of a hardware
\* interrupt has B (bit 4) = 0, for NMI as well as for IRQ, whatever the
\* value of B in the current P.
C14_PushedStatusHasBClear ==
    \A t \in {"IRQ", "NMI"} :
        EntryCompleted(t) => ~FlagSet(Writes(mem_log)[3].value, FLAG_B)

\* C15: taking a RESET initializes S to 0xFD whatever S was before, performs
\* no write to the stack (the three pushes are skipped), and loads PC from
\* the word at 0xFFFC.
C15_ResetSkipsPushes ==
    EntryCompleted("RESET") =>
        /\ cpu_s = 253
        /\ Writes(mem_log) = <<>>
        /\ cpu_pc = Word16(cpu_mem, 65532)

\* C16: with the interrupt check called once per cycle, exactly 7 cycles
\* pass from the cycle in which an interrupt is acknowledged to the cycle in
\* which its entry sequence is complete and PC holds the vector target, for
\* RESET, NMI and IRQ alike; until then the sequence is in progress.
C16_EntryTakesSevenCycles ==
    /\ \A t \in InterruptType :
           EntryCompleted(t) =>
               /\ ih_call.cycle - LastEntry.start_cycle = 7
               /\ cpu_pc = Word16(cpu_mem, INTERRUPT_VECTORS[t])
    /\ ih_sequence # NoSequence =>
           /\ ih_call.cycle - ih_context.start_cycle = ih_sequence.current_cycle
           /\ ih_sequence.current_cycle \in 0..6

\* a RESET acknowledged in cycle 0 has completed in cycle 7 with PC = 0xC034
C16_Witness ==
    /\ EntryCompleted("RESET")
    /\ LastEntry.start_cycle = 0
    /\ ih_call.cycle = 7
    /\ cpu_pc = 49204

\* the addresses of page 1
StackPage == 256..511

\* the step is a push or a pull instruction of the CPU
IsStackPush == cpu_cycle' # cpu_cycle /\ ih_call'.op = "push"
IsStackPull == cpu_cycle' # cpu_cycle /\ ih_call'.op = "pull"

\* C17: S stays within 0..255 and every stack access, by a push or pull
\* instruction or by an interrupt entry, uses an address of page 1
\* (0x0100..0x01FF); a push writes 0x0100 + S and leaves (S-1) mod 256, so a
\* push with S = 0x00 writes 0x0100 and leaves S = 0xFF, and a pull leaves
\* (S+1) mod 256 and reads 0x0100 + that, so a pull with S = 0xFF reads
\* 0x0100 and leaves S = 0x00.
C17_StackStaysInPageOne ==
    /\ [](/\ cpu_s \in 0..255
          /\ \A i \in 1..Len(mem_log) :
                 (mem_log[i].op = "write" \/ ih_call.op = "pull") =>
                     mem_log[i].address \in StackPage)
    /\ [][/\ IsStackPush =>
                 /\ mem_log'[1].address = 256 + cpu_s
                 /\ cpu_s' = (cpu_s - 1) % 256
                 /\ cpu_s = 0 => (mem_log'[1].address = 256 /\ cpu_s' = 255)
          /\ IsStackPull =>
                 /\ cpu_s' = (cpu_s + 1) % 256
                 /\ mem_log'[1].address = 256 + cpu_s'
                 /\ cpu_s = 255 => (mem_log'[1].address = 256 /\ cpu_s' = 0)]_vars

\* a push with S = 0x00 has written 0x0100 and left S = 0xFF, after a push
\* with S = 0x01
C17_Witness ==
    /\ ih_call.op = "push"
    /\ mem_log = <<[op |-> "write", address |-> 256, value |-> 90]>>
    /\ cpu_s = 255
    /\ 257 \in DOMAIN cpu_mem
    /\ cpu_mem[257] = 90

\* the step is a call on the handler or the registers in which an operation
\* failed
IsFailedCall == ih_call'.failed # "none" /\ UNCHANGED icVars

\* the call just made raised its error to the caller
RaisedToCaller == ih_call'.result = "ValueError"

\* C18: errors never silently mutate CPU state: if a step of an interrupt
\* entry sequence or a register-state restore fails, then either PC, S, P
\* and the stack are exactly as they were before the failed operation
\* started, or the error is raised to the caller.
C18_NoSilentMutation ==
    [][IsFailedCall =>
           \/ UNCHANGED <<cpu_pc, cpu_s, cpu_p, cpu_mem>>
           \/ RaisedToCaller]_vars

\* the last call on a bus was a read of the in-range address a, a write of a
\* byte to it
ReadOf(bus, a) ==
    /\ bus_access.bus = bus /\ bus_access.op = "read" /\ bus_access.address = a
    /\ ValidAddr(a)

WriteOf(bus, a) ==
    /\ bus_access.bus = bus /\ bus_access.op = "write" /\ bus_access.address = a
    /\ ValidAddr(a) /\ ValidByte(bus_access.value)

\* no mapping of the bus covers the address
Unmapped(bus, a) ==
    IF bus = "SystemBus" THEN ~SbFindsMapping(a)
    ELSE CurrentMapping(dm_mappings, a) = NoMapping

\* C19 as stated: a bus read of an in-range address covered by no mapping
\* never fails and returns the open-bus value 0xFF, whatever was written to
\* that address before.
C19_UnmappedReadIsOpenBus ==
    \A bus \in {"SystemBus", "MemoryController"}, a \in 0..AddrMax :
        (ReadOf(bus, a) /\ Unmapped(bus, a)) =>
            bus_error = None /\ bus_access.result = 255

\* C19 amended: a SystemBus read of an in-range address covered by no
\* mapping never fails and returns 0xFF, whatever was written to that
\* address before; a MemoryController read that finds no mapping for the
\* address never fails and returns the byte the AddressSpace holds there.
C19_UnmappedReadByBus ==
    \A a \in 0..AddrMax :
        /\ (ReadOf("SystemBus", a) /\ Unmapped("SystemBus", a)) =>
               bus_error = None /\ bus_access.result = 255
        /\ (ReadOf("MemoryController", a) /\ mc_routed.target = NoMapping) =>
               bus_error = None /\ bus_access.result = as_memory[a]

\* a SystemBus read of an unmapped address has returned 0xFF where the
\* AddressSpace holds a written byte and the device was written too
C19_Witness ==
    /\ ReadOf("SystemBus", 0)
    /\ Unmapped("SystemBus", 0)
    /\ bus_access.result = 255
    /\ as_memory[0] = 90
    /\ dev_data = 90


\* the step is a write of a valid byte to the in-range address a on the bus
WriteStep(bus, a) ==
    /\ bus_access' = BusAccess(bus, "write", a, bus_access'.value, -1)
    /\ ValidAddr(a)
    /\ ValidByte(bus_access'.value)

\* C20 as stated: a bus write to an address covered by no mapping is
\* silently discarded; it raises nothing and changes no readable bus state.
C20_UnmappedWriteDiscarded ==
    [][\A bus \in {"SystemBus", "MemoryController"}, a \in 0..AddrMax :
          (WriteStep(bus, a) /\ Unmapped(bus, a)) =>
              /\ bus_error' = None
              /\ UNCHANGED <<as_memory, dev_data>>]_vars

\* C20 amended: a SystemBus write to an address covered by no mapping
\* raises nothing and changes no readable bus state; a MemoryController
\* write that finds no mapping for the address stores the byte in the
\* AddressSpace and raises nothing, unless the address lies in a read-only
\* region of the AddressSpace, where it raises MemoryAccessError and changes
\* nothing.
C20_UnmappedWriteByBus ==
    [][\A a \in 0..AddrMax :
          /\ (WriteStep("SystemBus", a) /\ Unmapped("SystemBus", a)) =>
                 /\ bus_error' = None
                 /\ UNCHANGED <<as_memory, dev_data>>
          /\ (WriteStep("MemoryController", a) /\ mc_routed'.target = NoMapping) =>
                 IF InReadOnlyRegion(a)
                 THEN /\ bus_error' = "MemoryAccessError"
                      /\ UNCHANGED <<as_memory, dev_data>>
                 ELSE /\ bus_error' = None
                      /\ as_memory' = [as_memory EXCEPT ![a] = bus_access'.value]
                      /\ UNCHANGED dev_data]_vars

\* a MemoryController write to address 0, which no mapping covers and which
\* lies in a read-only region, has been refused while the same write to
\* address 2 was stored earlier
C20_Witness ==
    /\ WriteOf("MemoryController", 0)
    /\ Unmapped("MemoryController", 0)
    /\ mc_routed.target = NoMapping
    /\ InReadOnlyRegion(0)
    /\ bus_error = "MemoryAccessError"
    /\ as_memory[0] = 0
    /\ as_memory[2] = 90


\* the step is a tick of the CPU whose interrupt check observes an
\* interrupt: it starts the entry sequence
CpuObserves ==
    /\ SysTicking
    /\ Len(te_tick_log') = Len(te_tick_log) + 1
    /\ te_tick_log'[Len(te_tick_log')].device = "cpu"
    /\ ih_sequence = NoSequence
    /\ ih_sequence' # NoSequence

\* a device has asserted its IRQ source in the cycle in progress
AssertedInCycle == \E i \in 1..Len(te_tick_log) : te_tick_log[i].asserted

\* C11: an interrupt asserted by a device during master cycle k is observed
\* by the CPU-side interrupt check at the top of cycle k+1 and never within
\* cycle k itself: no interrupt check observes an interrupt in a cycle in
\* which a device has asserted it.
C11_NotObservedInAssertingCycle ==
    [][CpuObserves => ~AssertedInCycle]_vars


\* the active mapping of the controller that covers a is read-only
InReadOnlyMapping(a) ==
    /\ CurrentMapping(dm_mappings, a) # NoMapping
    /\ CurrentMapping(dm_mappings, a).read_only

\* C21: a write to any address inside a read-only mapping always fails with
\* a bus error that propagates to the caller, and the mapped device's
\* contents are not modified.
C21_ReadOnlyWriteFails ==
    [][\A a \in 0..AddrMax :
          (WriteStep("MemoryController", a) /\ InReadOnlyMapping(a)) =>
              /\ bus_error' = "MemoryAccessError"
              /\ dev_data' = dev_data]_vars


\* the step is a word access of the controller at address a
WordStep(a) ==
    /\ bus_access'.op \in {"read_word", "write_word"}
    /\ bus_access'.address = a
    /\ bus_access' # bus_access

\* the controller has no mapping and no cached mapping: every byte access
\* goes to the AddressSpace
NoDevice == dm_mappings = <<>> /\ mc_last_mapping = NoMapping

Writable(bus, a) ==
    IF bus = "SystemBus" THEN SbFindsMapping(a)
    ELSE IF CurrentMapping(dm_mappings, a) # NoMapping
         THEN ~CurrentMapping(dm_mappings, a).read_only
         ELSE ~InReadOnlyRegion(a)

\* the step is a read of address a on the bus
ReadStep(bus, a) ==
    /\ bus_access' = BusAccess(bus, "read", a, -1, bus_access'.result)
    /\ bus_access' # bus_access

\* C23: for every address a and byte v, write(a, v) immediately followed by
\* read(a) returns v whenever the target of a is writable and has no side
\* effects, under any set of mappings reached by map/unmap.
C23_ReadAfterWrite ==
    [][\A bus \in {"SystemBus", "MemoryController"}, a \in 0..AddrMax :
          (WriteOf(bus, a) /\ Writable(bus, a) /\ ReadStep(bus, a)) =>
              bus_access'.result = bus_access.value]_vars


\* no two mappings of the list have the same name
NamesUnique(maps) ==
    \A i, j \in 1..Len(maps) : i # j => maps[i].name # maps[j].name

\* C24: after any sequence of map and unmap operations no two active
\* mappings have the same name, on every bus implementation: a map call
\* whose name is already used by an active mapping is rejected.
C24_NoDuplicateNames == NamesUnique(dm_mappings) /\ NamesUnique(sb_mappings)


\* C25: for every address a and every set of mappings reached by map and
\* unmap, the binary-search lookup on the sorted list returns the mapping
\* whose range contains a, and returns none exactly when no active mapping
\* contains a.
C25_LookupFindsCoveringMapping ==
    \A a \in 0..AddrMax :
        /\ find_device(dm_mappings, a) = CurrentMapping(dm_mappings, a)
        /\ find_device(dm_mappings, a) = NoMapping <=>
               ~\E i \in 1..Len(dm_mappings) : contains_address(dm_mappings[i], a)

\* two mappings with a gap between them: the lookup finds the upper one and
\* finds none in the gap
C25_Witness ==
    /\ Len(dm_mappings) = 2
    /\ find_device(dm_mappings, 0) = dm_mappings[1]
    /\ find_device(dm_mappings, 1) = NoMapping
    /\ find_device(dm_mappings, AddrMax) = dm_mappings[2]


\* the names of AddressingMode
AddressingModeNames ==
    {"IMPLICIT", "ACCUMULATOR", "IMMEDIATE", "ZERO_PAGE", "ZERO_PAGE_X",
     "ZERO_PAGE_Y", "ABSOLUTE", "ABSOLUTE_X", "ABSOLUTE_Y", "INDIRECT",
     "INDIRECT_X", "INDIRECT_Y", "INDIRECT_ZP", "INDIRECT_ABS_X", "RELATIVE",
     "STACK"}

\* r is an instruction entry for the opcode byte o
ValidEntry(r, o) ==
    /\ r.opcode = o
    /\ r.instruction # "None"
    /\ r.addressing_mode \in AddressingModeNames
    /\ r.cycles \in 1..7
    /\ r.length \in 1..3

\* the opcode bytes for which decode returns an entry
DecodedOpcodes == {o \in 0..255 : decode(o) # NoInstruction}

ZeroPageWrapsForAll ==
    \A b \in 0..255, i \in 0..255 :
        /\ zero_page_indexed(b, i) = (b + i) % 256
        /\ zero_page_indexed(b, i) \in 0..255

\* C27: for every zero-page base b and index register value i the effective
\* address of ZP,X and ZP,Y is (b + i) mod 256 and lies in 0x0000..0x00FF.
C27_ZeroPageIndexedWraps ==
    /\ ZeroPageWrapsForAll
    /\ exe_call.op = "zero_page_x" =>
           /\ exe_call.result.address = (exe_call.operand + cpu_x) % 256
           /\ exe_call.result.address \in 0..255
    /\ exe_call.op = "zero_page_y" =>
           /\ exe_call.result.address = (exe_call.operand + cpu_y) % 256
           /\ exe_call.result.address \in 0..255

\* ZP,X with base 0xFF and X = 0x01 gave address 0x00
C27_Witness ==
    /\ exe_call.op = "zero_page_x"
    /\ exe_call.operand = 255
    /\ cpu_x = 1
    /\ exe_call.result.address = 0

\* C28: in every reachable state the status register P reads with bit 5
\* equal to 1, however P was last written.  CPURegisters.get_p returns the
\* stored byte cpu_p.
C28_PBit5ReadsOne == FlagSet(cpu_p, FLAG_U)

\* C29: a request made while a device is master is refused and leaves the
\* master unchanged, a request is granted only while no device is master and
\* makes the requester the master, and a release by a device that is not
\* the master leaves the master unchanged: at most one device holds the bus.
C29_SingleBusMaster ==
    [][/\ (arb_call'.op = "request_mastership" /\ sb_current_master # NoMaster) =>
              /\ arb_call'.result = FALSE
              /\ sb_current_master' = sb_current_master
       /\ (arb_call'.op = "request_mastership" /\ arb_call'.result = TRUE) =>
              /\ sb_current_master = NoMaster
              /\ sb_current_master' = arb_call'.device
       /\ (arb_call'.op = "release_mastership"
           /\ arb_call'.device # sb_current_master) =>
              sb_current_master' = sb_current_master]_vars

\* a request was refused while another device is the master
C29_Witness ==
    /\ arb_call = ArbCall("request_mastership", "video", FALSE)
    /\ sb_current_master = "dma"
    /\ InBusMasters(sb_bus_masters, "video")

\* C30: while a tick() call is blocked on the paused engine, resume() and
\* stop() of another thread can run: they do not wait for a lock the
\* blocked tick holds.
C30_BlockedTickCanBeReleased ==
    te_blocked => (ENABLED TeResume) /\ (ENABLED TeStop)


\* device d was ticked in the execute_cycle whose log is given
TickedIn(log, d) == \E i \in 1..Len(log) : log[i].kind = "tick" /\ log[i].what = d

\* C31: every registered device whose task is not blocked is ticked in every
\* execute_cycle call, and a device ticked in one execute_cycle is ticked in
\* the next one while it stays registered and unblocked.
C31_TickedEveryCycle ==
    [][ds_call' = "execute_cycle" =>
           \A d \in ds_registered_devices :
               ds_tasks[d].state # "BLOCKED" =>
                   /\ TickedIn(ds_log', d)
                   /\ (ds_call = "execute_cycle" /\ TickedIn(ds_log, d)) =>
                          TickedIn(ds_log', d)]_vars

\* the places of the queue that hold task t
InReady(t) == InList(ds_ready_queue, t)
InBlocked(t) == InList(ds_blocked_queue, t)
InCompleted(t) == InList(ds_completed_queue, t)

\* C32: every registered task is in exactly one place, the one its state
\* field names: the ready queue, the running slot, the blocked set or the
\* completed set.
C32_TaskInOnePlace ==
    \A t \in DOMAIN ds_tasks :
        /\ ds_tasks[t].state = "READY" <=> InReady(t)
        /\ ds_tasks[t].state = "RUNNING" <=> ds_current_task = t
        /\ ds_tasks[t].state = "BLOCKED" <=> InBlocked(t)
        /\ ds_tasks[t].state = "COMPLETED" <=> InCompleted(t)
        /\ ds_tasks[t].state \in {"READY", "RUNNING", "BLOCKED", "COMPLETED"}

\* C35: the controller's state field is PENDING if and only if at least one
\* request (RESET, NMI or an IRQ source) is pending and no interrupt is
\* being serviced.
C35_PendingIffRequest ==
    current_state = "PENDING" <=> (is_pending /\ servicing_interrupt = None)

\* the sequence in progress after a step is the one in progress before it,
\* no further back than it was
SameEntry ==
    /\ ih_sequence'.interrupt_type = ih_sequence.interrupt_type
    /\ ih_sequence'.saved_status = ih_sequence.saved_status
    /\ ih_context' = ih_context
    /\ ih_sequence'.current_cycle >= ih_sequence.current_cycle

C33_ResumeContinues ==
    (loop_running /\ loop_paused) => orc_status = "PAUSED"

\* C34: while the orchestrator is PAUSED the master cycle count does not
\* advance and no device is ticked, in every clock mode
C34_PausedStandsStill ==
    [][(orc_status = "PAUSED" /\ orc_status' = "PAUSED") =>
           (clk_current_cycle' = clk_current_cycle /\ dev_ticks' = dev_ticks)]_vars

\* C37: a write_word that fails part-way leaves all memory as it was before
\* the call: no byte of the word is committed
C37_FailedWordWriteCommitsNothing ==
    [][(bus_access'.op = "write_word" /\ bus_error' # None) =>
           (as_memory' = as_memory /\ dev_data' = dev_data)]_vars

\* C38: an enabled, non-temporary breakpoint whose ignore count is used up
\* triggers every time execution reaches its address: a check at the address
\* of a breakpoint that was not disabled or removed reports a hit
C38_TriggersEveryTime ==
    [][bm_call'.op = "check_breakpoint_hit" =>
           \A id \in DOMAIN bm_breakpoints :
               (/\ bm_breakpoints[id].state # "DISABLED"
                /\ bm_breakpoints[id].type # "TEMPORARY"
                /\ bm_breakpoints[id].ignore_count = 0
                /\ bm_breakpoints[id].address = bm_call'.address)
               => bm_call'.result # NoHit]_vars

\* the place of a component in the initialization order
PlaceOf(component_id) ==
    CHOOSE i \in 1..Len(cr_initialization_order) :
        cr_initialization_order[i] = component_id

\* C39: after any sequence of register_component and unregister_component
\* calls, those that raise included, the initialization order is a
\* permutation of the registered component ids in which every component
\* comes after all of its registered dependencies
C39_OrderIsTopological ==
    /\ Len(cr_initialization_order) = Len(cr_components)
    /\ \A i \in 1..Len(cr_components) :
           /\ InSeq(cr_initialization_order, cr_components[i].component_id)
           /\ \A k \in 1..Len(cr_components[i].dependencies) :
                  LET d == cr_components[i].dependencies[k]
                  IN IsRegistered(cr_components, d) =>
                         /\ InSeq(cr_initialization_order, d)
                         /\ PlaceOf(d) < PlaceOf(cr_components[i].component_id)

\* C40: in the zero-page pointer modes (zp,X), (zp),Y and (zp) both bytes of
\* the pointer are fetched from the zero page: every address read lies in
\* 0x0000-0x00FF
C40_PointerReadFromZeroPage ==
    exe_call.op \in {"indirect_x", "indirect_y", "indirect_zp"} =>
        \A i \in 1..Len(adr_reads) : adr_reads[i] <= 255

====
